---- MODULE Spec2Model ----
(***************************************************************************)
(* mystl::avl_tree<int, std::less<int>> (src/avl_tree.hpp) as a state      *)
(* machine.  Nodes live in a heap addressed by node id; a std::unique_ptr  *)
(* is a slot holding a node id or NULL, and assigning to a slot destroys   *)
(* the subtree the slot owned before, as unique_ptr::reset does.           *)
(***************************************************************************)
EXTENDS Integers, Sequences, FiniteSets, TLC

\* Element values the client passes to insert/remove/contains.
MaxVal == 6

Values == 1..MaxVal

\* Addresses operator new can return.
NodeIds == 1..MaxVal

\* nullptr
NULL == 0

\* avl_tree::ALLOWED_IMBALANCE
ALLOWED_IMBALANCE == 1

VARIABLES
    heap,    \* live nodes: node id -> [value_, left_, right_, height_]
    root_,   \* avl_tree::root_
    size_,   \* avl_tree::size_
    last,    \* the last public call: its name, argument and outcome
    abs,     \* the mathematical set the calls so far describe
    rt,      \* a round trip's plan: the values chosen, and those still to insert
    other,   \* a second avl_tree object, b: [made, root_, size_]
    cursor,  \* a const_iterator a client holds, and what it has yielded
    mq,      \* a ThreadQueue object: [queue_, mutex_, cond_]
    th,      \* the threads using mq: thread -> its position and locals
    log,     \* the pushes and deliveries on mq, in the order they happened
    run,     \* an insert or remove on a in progress: its frames and locals
    comp,    \* the comparator objects of a and b: object -> its less_
    pq,      \* a priority_queue object: [container_] and its last call
    us       \* unordered_set objects: object -> [made, buckets_, size_]

vars ==
    <<heap, root_, size_, last, abs, rt, other, cursor, mq, th, log,
      run, comp, pq, us>>

\* What the calls on the single tree a leave alone.
solo == <<other, cursor, mq, th, log, run, comp, pq, us>>

\* std::max
std_max(a, b) == IF a >= b THEN a ELSE b

\* std::less<int>::operator()
less_(a, b) == a < b

(***************************************************************************)
(* The machine a private member function works on: the tree's fields, the  *)
(* heap, and counters of what the call did.  fault records a dereference   *)
(* of nullptr or of a destroyed node, or an allocation with no memory.     *)
(***************************************************************************)
Machine(h, r, s) ==
    [heap |-> h, root_ |-> r, size_ |-> s, fault |-> FALSE,
     singles |-> 0, doubles |-> 0, created |-> 0, destroyed |-> 0]

Fault(m) == [m EXCEPT !.fault = TRUE]

Live(m, p) == p \in DOMAIN m.heap

\* A node_ptr lvalue: the tree's root_, or the left_ / right_ of a node.
RootSlot == [n |-> NULL, f |-> "root_"]
LeftOf(p) == [n |-> p, f |-> "left_"]
RightOf(p) == [n |-> p, f |-> "right_"]

SlotOk(m, s) == s.f = "root_" \/ Live(m, s.n)

\* avl_tree::get_raw: the pointer a slot holds.
get_raw(m, s) == IF s.f = "root_" THEN m.root_ ELSE m.heap[s.n][s.f]

\* Store a pointer in a slot without touching what it held.
Put(m, s, p) ==
    IF s.f = "root_" THEN [m EXCEPT !.root_ = p]
    ELSE [m EXCEPT !.heap[s.n][s.f] = p]

\* ~node(): the members right_ and left_ are destroyed (each deleting the
\* subtree it owns), then the node's storage is released.
RECURSIVE Destroy(_, _)
Destroy(m, p) ==
    IF p = NULL THEN m
    ELSE IF ~Live(m, p) THEN Fault(m)
    ELSE LET m1 == Destroy(m, m.heap[p].right_)
             m2 == Destroy(m1, m.heap[p].left_)
         IN  IF ~Live(m2, p) THEN Fault(m2)
             ELSE [m2 EXCEPT !.heap = [x \in DOMAIN m2.heap \ {p} |-> m2.heap[x]],
                             !.destroyed = @ + 1]

\* std::unique_ptr::reset(p): the slot takes p, then the old pointee is deleted.
Reset(m, s, p) ==
    IF m.fault \/ ~SlotOk(m, s) THEN Fault(m)
    ELSE LET old == get_raw(m, s)
         IN  Destroy(Put(m, s, p), old)

\* dst = src without the release: src keeps the pointer it gave away.
MoveAssign_keeps(m, dst, src) ==
    IF m.fault \/ ~SlotOk(m, src) \/ ~SlotOk(m, dst) THEN Fault(m)
    ELSE Reset(m, dst, get_raw(m, src))

\* dst = std::move( src ): dst.reset( src.release() )
MoveAssign(m, dst, src) ==
    IF m.fault \/ ~SlotOk(m, src) \/ ~SlotOk(m, dst) THEN Fault(m)
    ELSE LET p == get_raw(m, src)
         IN  Reset(Put(m, src, NULL), dst, p)

\* make_unique<node>( std::move( value ) ): node( value ) at address id.
make_unique(m, id, value) ==
    IF m.fault \/ id = NULL \/ Live(m, id) THEN Fault(m)
    ELSE [m EXCEPT !.heap = [x \in DOMAIN m.heap \cup {id} |->
                                IF x = id
                                THEN [value_ |-> value, left_ |-> NULL,
                                      right_ |-> NULL, height_ |-> 1]
                                ELSE m.heap[x]],
                   !.created = @ + 1]

\* avl_tree::height( const node_ptr & )
height(m, p) == IF p # NULL THEN m.heap[p].height_ ELSE 0

\* p->height_ = std::max( height( p->left_ ), height( p->right_ ) ) + 1
update_height(m, p) ==
    [m EXCEPT !.heap[p].height_ =
         std_max(height(m, m.heap[p].left_), height(m, m.heap[p].right_)) + 1]

\* n->height_ = std::max( height( a ), height( b ) ) + 1
set_height(m, n, a, b) ==
    [m EXCEPT !.heap[n].height_ = std_max(height(m, a), height(m, b)) + 1]

\* The node a rotation at slot s turns about: *ptr and the child it lifts.
RotateOk(m, s, f) ==
    /\ ~m.fault
    /\ SlotOk(m, s)
    /\ Live(m, get_raw(m, s))
    /\ Live(m, m.heap[get_raw(m, s)][f])

\* The lines of single_rotate_left, with ptr = p and the local left.
rotate_left_lines(m, s, p, left) ==
    LET \* auto left = std::move( ptr->left_ );
        m1 == Put(m, LeftOf(p), NULL)
        \* ptr->left_ = std::move( left->right_ );
        m2 == MoveAssign(m1, LeftOf(p), RightOf(left))
        \* ptr->height_ = std::max( height( ptr->left_ ), height( ptr->right_ ) ) + 1;
        m3 == update_height(m2, p)
        \* left->height_ = std::max( height( left->left_ ), height( ptr ) ) + 1;
        m4 == set_height(m3, left, m3.heap[left].left_, p)
        \* left->right_ = std::move( ptr );
        m5 == MoveAssign(m4, RightOf(left), s)
        \* ptr = std::move( left );
    IN  Reset(m5, s, left)

\* rotate_left_lines with the line "ptr->height_ = ..." left out.
rotate_left_lines_stale(m, s, p, left) ==
    LET m1 == Put(m, LeftOf(p), NULL)
        m2 == MoveAssign(m1, LeftOf(p), RightOf(left))
        m4 == set_height(m2, left, m2.heap[left].left_, p)
        m5 == MoveAssign(m4, RightOf(left), s)
    IN  Reset(m5, s, left)

\* single_rotate_left with the line "ptr->height_ = ..." left out.
single_rotate_left_stale(m, s) ==
    IF ~RotateOk(m, s, "left_") THEN Fault(m)
    ELSE rotate_left_lines_stale(m, s, get_raw(m, s), m.heap[get_raw(m, s)].left_)

single_rotate_left(m, s) ==
    IF ~RotateOk(m, s, "left_") THEN Fault(m)
    ELSE rotate_left_lines(m, s, get_raw(m, s), m.heap[get_raw(m, s)].left_)

\* The lines of single_rotate_right, with ptr = p and the local right.
rotate_right_lines(m, s, p, right) ==
    LET \* auto right = std::move( ptr->right_ );
        m1 == Put(m, RightOf(p), NULL)
        \* ptr->right_ = std::move( right->left_ );
        m2 == MoveAssign(m1, RightOf(p), LeftOf(right))
        \* ptr->height_ = std::max( height( ptr->left_ ), height( ptr->right_ ) ) + 1;
        m3 == update_height(m2, p)
        \* right->height_ = std::max( height( right->right_ ), height( ptr ) ) + 1;
        m4 == set_height(m3, right, m3.heap[right].right_, p)
        \* right->left_ = std::move( ptr );
        m5 == MoveAssign(m4, LeftOf(right), s)
        \* ptr = std::move( right );
    IN  Reset(m5, s, right)

single_rotate_right(m, s) ==
    IF ~RotateOk(m, s, "right_") THEN Fault(m)
    ELSE rotate_right_lines(m, s, get_raw(m, s), m.heap[get_raw(m, s)].right_)

double_rotate_left(m, s) ==
    IF m.fault \/ ~SlotOk(m, s) \/ ~Live(m, get_raw(m, s)) THEN Fault(m)
    ELSE single_rotate_left(single_rotate_right(m, LeftOf(get_raw(m, s))), s)

double_rotate_right(m, s) ==
    IF m.fault \/ ~SlotOk(m, s) \/ ~Live(m, get_raw(m, s)) THEN Fault(m)
    ELSE single_rotate_right(single_rotate_left(m, RightOf(get_raw(m, s))), s)

\* Counters of the rotation balance chose.
Single(m) == [m EXCEPT !.singles = @ + 1]
Double(m) == [m EXCEPT !.doubles = @ + 1]

\* balance_rotate choosing the double rotation where the single one is due.
balance_rotate_inverted(m, s, l, r) ==
    IF height(m, l) > height(m, r) + ALLOWED_IMBALANCE
    THEN IF height(m, m.heap[l].left_) < height(m, m.heap[l].right_)
         THEN Single(single_rotate_left(m, s))
         ELSE Double(double_rotate_left(m, s))
    ELSE IF height(m, r) > height(m, l) + ALLOWED_IMBALANCE
    THEN IF height(m, m.heap[r].right_) < height(m, m.heap[r].left_)
         THEN Single(single_rotate_right(m, s))
         ELSE Double(double_rotate_right(m, s))
    ELSE m

\* balance_rotate tolerating a difference of ALLOWED_IMBALANCE + 1.
balance_rotate_late(m, s, l, r) ==
    IF height(m, l) > height(m, r) + ALLOWED_IMBALANCE + 1
    THEN IF height(m, m.heap[l].left_) >= height(m, m.heap[l].right_)
         THEN Single(single_rotate_left(m, s))
         ELSE Double(double_rotate_left(m, s))
    ELSE IF height(m, r) > height(m, l) + ALLOWED_IMBALANCE + 1
    THEN IF height(m, m.heap[r].right_) >= height(m, m.heap[r].left_)
         THEN Single(single_rotate_right(m, s))
         ELSE Double(double_rotate_right(m, s))
    ELSE m

\* balance, lines 511-532: the rotation, if any, for *ptr = p with children l, r.
balance_rotate(m, s, l, r) ==
    IF height(m, l) > height(m, r) + ALLOWED_IMBALANCE
    THEN IF height(m, m.heap[l].left_) >= height(m, m.heap[l].right_)
         THEN Single(single_rotate_left(m, s))
         ELSE Double(double_rotate_left(m, s))
    ELSE IF height(m, r) > height(m, l) + ALLOWED_IMBALANCE
    THEN IF height(m, m.heap[r].right_) >= height(m, m.heap[r].left_)
         THEN Single(single_rotate_right(m, s))
         ELSE Double(double_rotate_right(m, s))
    ELSE m

\* balance, line 534: the height of the node now in the slot.
balance_height(m, s) ==
    IF m.fault \/ ~Live(m, get_raw(m, s)) THEN Fault(m)
    ELSE update_height(m, get_raw(m, s))

\* balance_rotate without the right-heavy branch.
balance_rotate_left_only(m, s, l, r) ==
    IF height(m, l) > height(m, r) + ALLOWED_IMBALANCE
    THEN IF height(m, m.heap[l].left_) >= height(m, m.heap[l].right_)
         THEN Single(single_rotate_left(m, s))
         ELSE Double(double_rotate_left(m, s))
    ELSE m

\* balance without the right-heavy branch.
balance_left_only(m, s) ==
    IF m.fault \/ ~SlotOk(m, s) THEN Fault(m)
    ELSE IF get_raw(m, s) = NULL THEN m
    ELSE IF ~Live(m, get_raw(m, s)) THEN Fault(m)
    ELSE balance_height(
             balance_rotate_left_only(m, s, m.heap[get_raw(m, s)].left_,
                                      m.heap[get_raw(m, s)].right_), s)

balance(m, s) ==
    IF m.fault \/ ~SlotOk(m, s) THEN Fault(m)
    ELSE IF get_raw(m, s) = NULL THEN m
    ELSE IF ~Live(m, get_raw(m, s)) THEN Fault(m)
    ELSE balance_height(
             balance_rotate(m, s, m.heap[get_raw(m, s)].left_,
                            m.heap[get_raw(m, s)].right_), s)

RECURSIVE insert(_, _, _, _)

\* insert without the second comparison: a value not less goes right.
insert_no_equal(m, value, s, id) ==
    IF m.fault \/ ~SlotOk(m, s) THEN Fault(m)
    ELSE LET p == get_raw(m, s) IN
    IF p = NULL
    THEN LET m1 == make_unique(m, id, value)
             m2 == Reset(m1, s, id)
         IN  balance([m2 EXCEPT !.size_ = @ + 1], s)
    ELSE IF ~Live(m, p) THEN Fault(m)
    ELSE IF less_(value, m.heap[p].value_)
    THEN balance(insert(m, value, LeftOf(p), id), s)
    ELSE balance(insert(m, value, RightOf(p), id), s)

\* insert counting every call: "++size_" also when the value is found.
insert_counts_found(m, value, s, id) ==
    IF m.fault \/ ~SlotOk(m, s) THEN Fault(m)
    ELSE LET p == get_raw(m, s) IN
    IF p = NULL
    THEN LET m1 == make_unique(m, id, value)
             m2 == Reset(m1, s, id)
         IN  balance([m2 EXCEPT !.size_ = @ + 1], s)
    ELSE IF ~Live(m, p) THEN Fault(m)
    ELSE IF less_(value, m.heap[p].value_)
    THEN balance(insert(m, value, LeftOf(p), id), s)
    ELSE IF less_(m.heap[p].value_, value)
    THEN balance(insert(m, value, RightOf(p), id), s)
    ELSE [m EXCEPT !.size_ = @ + 1]

\* avl_tree::insert( value_type &&, node_ptr & ); id is the address the
\* allocator hands out if the call reaches make_unique.
insert(m, value, s, id) ==
    IF m.fault \/ ~SlotOk(m, s) THEN Fault(m)
    ELSE LET p == get_raw(m, s) IN
    IF p = NULL
    THEN LET m1 == make_unique(m, id, value)
             m2 == Reset(m1, s, id)
         IN  balance([m2 EXCEPT !.size_ = @ + 1], s)
    ELSE IF ~Live(m, p) THEN Fault(m)
    ELSE IF less_(value, m.heap[p].value_)
    THEN balance(insert(m, value, LeftOf(p), id), s)
    ELSE IF less_(m.heap[p].value_, value)
    THEN balance(insert(m, value, RightOf(p), id), s)
    ELSE m

\* finMin without the descent to the left.
finMin_here(m, p) == p

\* avl_tree::finMin: the leftmost node below p, nullptr for nullptr.
RECURSIVE finMin(_, _)
finMin(m, p) ==
    IF p = NULL THEN NULL
    ELSE IF m.heap[p].left_ # NULL THEN finMin(m, m.heap[p].left_)
    ELSE p

\* finMax with "if" for "while": one step right at most.
finMax_one_step(m, p) ==
    IF p = NULL THEN NULL
    ELSE IF m.heap[p].right_ # NULL THEN m.heap[p].right_
    ELSE p

\* avl_tree::finMax: the rightmost node below p, nullptr for nullptr.
RECURSIVE finMax(_, _)
finMax(m, p) ==
    IF p = NULL THEN NULL
    ELSE IF m.heap[p].right_ # NULL THEN finMax(m, m.heap[p].right_)
    ELSE p

\* A const value_type & argument: a temporary holding v, or the value_ of node n.
Temp(v) == [node |-> NULL, v |-> v]
ValueOfNode(n) == [node |-> n, v |-> 0]
Read(m, ref) == IF ref.node = NULL THEN ref.v ELSE m.heap[ref.node].value_
ReadOk(m, ref) == ref.node = NULL \/ Live(m, ref.node)

RECURSIVE remove(_, _, _)

\* remove without "--size_".
remove_no_count(m, value, s) ==
    IF m.fault \/ ~SlotOk(m, s) THEN Fault(m)
    ELSE LET p == get_raw(m, s) IN
    IF p = NULL THEN m
    ELSE IF ~Live(m, p) \/ ~ReadOk(m, value) THEN Fault(m)
    ELSE IF less_(Read(m, value), m.heap[p].value_)
    THEN balance(remove(m, value, LeftOf(p)), s)
    ELSE IF less_(m.heap[p].value_, Read(m, value))
    THEN balance(remove(m, value, RightOf(p)), s)
    ELSE IF m.heap[p].left_ # NULL /\ m.heap[p].right_ # NULL
    THEN LET succ == finMin(m, m.heap[p].right_)
             m1 == [m EXCEPT !.heap[p].value_ = m.heap[succ].value_]
         IN  balance(remove(m1, ValueOfNode(p), RightOf(p)), s)
    ELSE IF m.heap[p].left_ # NULL
    THEN balance(MoveAssign(m, s, LeftOf(p)), s)
    ELSE balance(MoveAssign(m, s, RightOf(p)), s)

\* remove with the first comparison written twice: a value greater than the
\* node's is taken for a match.
remove_same_compare(m, value, s) ==
    IF m.fault \/ ~SlotOk(m, s) THEN Fault(m)
    ELSE LET p == get_raw(m, s) IN
    IF p = NULL THEN m
    ELSE IF ~Live(m, p) \/ ~ReadOk(m, value) THEN Fault(m)
    ELSE IF less_(Read(m, value), m.heap[p].value_)
    THEN balance(remove(m, value, LeftOf(p)), s)
    ELSE IF m.heap[p].left_ # NULL /\ m.heap[p].right_ # NULL
    THEN LET succ == finMin(m, m.heap[p].right_)
             m1 == [m EXCEPT !.heap[p].value_ = m.heap[succ].value_]
         IN  balance(remove(m1, ValueOfNode(p), RightOf(p)), s)
    ELSE LET m1 == IF m.heap[p].left_ # NULL
                   THEN MoveAssign(m, s, LeftOf(p))
                   ELSE MoveAssign(m, s, RightOf(p))
         IN  balance([m1 EXCEPT !.size_ = @ - 1], s)

\* remove with the splice testing the wrong child:
\* ptr = ( ptr->right_ ? std::move( ptr->left_ ) : std::move( ptr->right_ ) )
remove_wrong_child(m, value, s) ==
    IF m.fault \/ ~SlotOk(m, s) THEN Fault(m)
    ELSE LET p == get_raw(m, s) IN
    IF p = NULL THEN m
    ELSE IF ~Live(m, p) \/ ~ReadOk(m, value) THEN Fault(m)
    ELSE IF less_(Read(m, value), m.heap[p].value_)
    THEN balance(remove(m, value, LeftOf(p)), s)
    ELSE IF less_(m.heap[p].value_, Read(m, value))
    THEN balance(remove(m, value, RightOf(p)), s)
    ELSE IF m.heap[p].left_ # NULL /\ m.heap[p].right_ # NULL
    THEN LET succ == finMin(m, m.heap[p].right_)
             m1 == [m EXCEPT !.heap[p].value_ = m.heap[succ].value_]
         IN  balance(remove(m1, ValueOfNode(p), RightOf(p)), s)
    ELSE LET m1 == IF m.heap[p].right_ # NULL
                   THEN MoveAssign(m, s, LeftOf(p))
                   ELSE MoveAssign(m, s, RightOf(p))
         IN  balance([m1 EXCEPT !.size_ = @ - 1], s)

\* avl_tree::remove( const value_type &, node_ptr & )
remove(m, value, s) ==
    IF m.fault \/ ~SlotOk(m, s) THEN Fault(m)
    ELSE LET p == get_raw(m, s) IN
    IF p = NULL THEN m
    ELSE IF ~Live(m, p) \/ ~ReadOk(m, value) THEN Fault(m)
    ELSE IF less_(Read(m, value), m.heap[p].value_)
    THEN balance(remove(m, value, LeftOf(p)), s)
    ELSE IF less_(m.heap[p].value_, Read(m, value))
    THEN balance(remove(m, value, RightOf(p)), s)
    ELSE IF m.heap[p].left_ # NULL /\ m.heap[p].right_ # NULL
    THEN LET succ == finMin(m, m.heap[p].right_)
             m1 == [m EXCEPT !.heap[p].value_ = m.heap[succ].value_]
         IN  balance(remove(m1, ValueOfNode(p), RightOf(p)), s)
    ELSE LET m1 == IF m.heap[p].left_ # NULL
                   THEN MoveAssign(m, s, LeftOf(p))
                   ELSE MoveAssign(m, s, RightOf(p))
         IN  balance([m1 EXCEPT !.size_ = @ - 1], s)

\* avl_tree::contains: the iterative descent from root_.
RECURSIVE descend(_, _, _)
descend(m, value, child) ==
    IF child = NULL THEN FALSE
    ELSE IF less_(value, m.heap[child].value_)
    THEN descend(m, value, m.heap[child].left_)
    ELSE IF less_(m.heap[child].value_, value)
    THEN descend(m, value, m.heap[child].right_)
    ELSE TRUE

\* The descent with the first comparison written twice: a value greater than
\* a node's is reported as found.
RECURSIVE descend_same_compare(_, _, _)
descend_same_compare(m, value, child) ==
    IF child = NULL THEN FALSE
    ELSE IF less_(value, m.heap[child].value_)
    THEN descend_same_compare(m, value, m.heap[child].left_)
    ELSE TRUE

contains_same_compare(m, value) ==
    IF m.root_ = NULL THEN FALSE ELSE descend_same_compare(m, value, m.root_)

contains(m, value) ==
    IF m.root_ = NULL THEN FALSE ELSE descend(m, value, m.root_)

\* clear giving up root_ without destroying what it owned: root_.release().
clear_release(m) == [Put(m, RootSlot, NULL) EXCEPT !.size_ = 0]

\* avl_tree::clear
clear(m) == [Reset(m, RootSlot, NULL) EXCEPT !.size_ = 0]

\* size_type height() const noexcept
avl_height(m) == height(m, m.root_)

\* avl_tree::size, avl_tree::empty
size(m) == m.size_
empty(m) == m.size_ = 0

(***************************************************************************)
(* avl_tree::const_iterator: [tree_, index_, stack_], the top of stack_    *)
(* being the last element of the sequence.                                 *)
(***************************************************************************)
\* The loop "while( cur ) { stack_.push( cur ); cur = get_raw( cur->left_ ); }"
RECURSIVE push_left_spine(_, _, _)
push_left_spine(m, stack, cur) ==
    IF cur = NULL THEN stack
    ELSE push_left_spine(m, Append(stack, cur), m.heap[cur].left_)

\* The constructor pushing the root without the nodes left of it.
const_iterator_root_only(m, tree, end) ==
    IF end \/ size(m) = 0
    THEN [tree_ |-> tree, index_ |-> size(m), stack_ |-> <<>>]
    ELSE [tree_ |-> tree, index_ |-> 0, stack_ |-> <<m.root_>>]

\* const_iterator( const avl_tree *tree, bool end )
const_iterator(m, tree, end) ==
    IF end \/ size(m) = 0
    THEN [tree_ |-> tree, index_ |-> size(m), stack_ |-> <<>>]
    ELSE [tree_ |-> tree, index_ |-> 0,
          stack_ |-> push_left_spine(m, <<>>, m.root_)]

begin(m, tree) == const_iterator(m, tree, FALSE)
end_(m, tree) == const_iterator(m, tree, TRUE)

\* stack_.top() is defined: the stack is not empty and its top is a live node.
it_ok(m, it) == it.stack_ # <<>> /\ Live(m, it.stack_[Len(it.stack_)])

\* const_iterator::operator*
it_deref(m, it) == m.heap[it.stack_[Len(it.stack_)]].value_

\* operator++ pushing the right child without the left spine below it.
it_next_no_spine(m, it) ==
    LET cur == it.stack_[Len(it.stack_)]
        popped == SubSeq(it.stack_, 1, Len(it.stack_) - 1)
    IN  [tree_ |-> it.tree_,
         index_ |-> it.index_ + 1,
         stack_ |-> IF m.heap[cur].right_ = NULL THEN popped
                    ELSE Append(popped, m.heap[cur].right_)]

\* const_iterator::operator++
it_next(m, it) ==
    LET cur == it.stack_[Len(it.stack_)]
        popped == SubSeq(it.stack_, 1, Len(it.stack_) - 1)
    IN  [tree_ |-> it.tree_,
         index_ |-> it.index_ + 1,
         stack_ |-> push_left_spine(m, popped, m.heap[cur].right_)]

\* operator== comparing the stacks as well.
it_eq_stacks(a, b) ==
    a.tree_ = b.tree_ /\ a.index_ = b.index_ /\ a.stack_ = b.stack_

\* operator== comparing the indices only.
it_eq_index_only(a, b) == a.index_ = b.index_

\* const_iterator::operator==
it_eq(a, b) == a.tree_ = b.tree_ /\ a.index_ = b.index_

\* avl_tree::print: the elements written by "for( const auto &elem : *this )",
\* with fault set when the loop uses a cursor whose stack has no live top.
RECURSIVE print_from(_, _, _, _)
print_from(m, it, e, out) ==
    IF it_eq(it, e) THEN [out |-> out, fault |-> FALSE]
    ELSE IF ~it_ok(m, it) THEN [out |-> out, fault |-> TRUE]
    ELSE print_from(m, it_next(m, it), e, Append(out, it_deref(m, it)))

print(m, tree) == print_from(m, begin(m, tree), end_(m, tree), <<>>)

(***************************************************************************)
(* The public calls on one tree object.                                    *)
(***************************************************************************)
This == "a"

Cur == Machine(heap, root_, size_)

\* The address the next operator new returns: any free one.
NewAddr ==
    IF NodeIds \ DOMAIN heap = {} THEN {NULL} ELSE NodeIds \ DOMAIN heap

Call(op, arg) ==
    [op |-> op, arg |-> arg, ret |-> 0, threw |-> FALSE, fault |-> FALSE,
     singles |-> 0, doubles |-> 0, created |-> 0, destroyed |-> 0]

(***************************************************************************)
(* Node addresses are visible to no public call, so states are kept up to  *)
(* a renaming of addresses: when a call returns, the nodes reachable from  *)
(* root_ are renumbered by their in-order position, nodes no slot reaches  *)
(* follow them, and a pointer to a destroyed node gets an address that is  *)
(* never handed out again.                                                 *)
(***************************************************************************)
RECURSIVE InOrderNodes(_, _)
InOrderNodes(h, p) ==
    IF p \notin DOMAIN h THEN <<>>
    ELSE InOrderNodes(h, h[p].left_) \o <<p>> \o InOrderNodes(h, h[p].right_)

RECURSIVE Ascending(_)
Ascending(S) ==
    IF S = {} THEN <<>>
    ELSE LET n == CHOOSE x \in S : \A y \in S : x <= y
         IN  <<n>> \o Ascending(S \ {n})

SeqRange(q) == {q[i] : i \in 1..Len(q)}

Renumber(m) ==
    LET reach == InOrderNodes(m.heap, m.root_)
        order == reach \o Ascending(DOMAIN m.heap \ SeqRange(reach))
        to(p) == IF p = NULL THEN NULL
                 ELSE IF p \in DOMAIN m.heap
                 THEN CHOOSE i \in 1..Len(order) : order[i] = p
                 ELSE MaxVal + 1
    IN  [m EXCEPT !.root_ = to(m.root_),
                  !.heap = [i \in 1..Len(order) |->
                               [m.heap[order[i]] EXCEPT !.left_ = to(@),
                                                        !.right_ = to(@)]]]

\* The call returns: the tree takes the machine's fields.
Return(m, call) ==
    LET c == Renumber(m)
    IN  /\ heap' = c.heap
        /\ root_' = c.root_
        /\ size_' = c.size_
        /\ last' = [call EXCEPT !.fault = m.fault,
                                !.singles = m.singles, !.doubles = m.doubles,
                                !.created = m.created, !.destroyed = m.destroyed]

\* No round trip is planned.
NoPlan == [goal |-> {}, pend |-> {}, left |-> {}]

\* No second tree has been constructed.
NoTree == [made |-> FALSE, root_ |-> NULL, size_ |-> 0]

\* No cursor has been constructed.
NoCursor ==
    [made |-> FALSE, cur |-> [tree_ |-> "", index_ |-> 0, stack_ |-> <<>>],
     seen |-> <<>>, stale |-> FALSE, fault |-> FALSE]

\* ThreadQueue() = default: an empty queue_, a free mutex_, nobody waiting.
NoThread == 0
ThreadQueue == [queue_ |-> <<>>, mutex_ |-> NoThread, cond_ |-> {}]

\* Nothing has been pushed on the queue or taken from it.
NoLog == [pushed |-> <<>>, got |-> <<>>, calls |-> 0, fault |-> FALSE]

\* No thread has been started.
NoThreads == [t \in {} |-> NoThread]

\* No insert or remove is in progress.
NoRun ==
    [op |-> "", arg |-> 0, frames |-> <<>>, start |-> <<>>, fault |-> FALSE,
     singles |-> 0, doubles |-> 0, created |-> 0, destroyed |-> 0]

\* Trees whose comparator is std::less: every comparator object is the same.
NoComp == [o \in {} |-> ""]

\* No priority_queue has been constructed.
NoQueue == [made |-> FALSE, container_ |-> <<>>, capacity |-> 0, sorted |-> <<>>]

\* No unordered_set has been constructed.
NoSet == [made |-> FALSE, buckets_ |-> <<>>, size_ |-> 0]

NoSets == [a |-> NoSet, b |-> NoSet, ended |-> FALSE]

\* One tree and nothing else.
Alone ==
    /\ other = NoTree
    /\ cursor = NoCursor
    /\ mq = ThreadQueue
    /\ th = NoThreads
    /\ log = NoLog
    /\ run = NoRun
    /\ comp = NoComp
    /\ pq = NoQueue
    /\ us = NoSets

Init ==
    /\ heap = [x \in {} |-> NULL]
    /\ root_ = NULL
    /\ size_ = 0
    /\ last = Call("avl_tree", 0)
    /\ abs = {}
    /\ rt = NoPlan
    /\ Alone

\* void insert( const value_type &value )
insert_value(v) ==
    /\ \E id \in NewAddr :
           Return(insert(Cur, v, RootSlot, id), Call("insert", v))
    /\ abs' = abs \cup {v}

\* void remove( const value_type &value ) noexcept
remove_value(v) ==
    /\ Return(remove(Cur, Temp(v), RootSlot), Call("remove", v))
    /\ abs' = abs \ {v}

\* void insert( std::initializer_list<value_type> ): the elements from the
\* k-th on are inserted in order, the k-th node taking address k.
RECURSIVE insert_list(_, _, _)
insert_list(m, lst, k) ==
    IF k > Len(lst) THEN m
    ELSE insert_list(insert(m, lst[k], RootSlot, k), lst, k + 1)

Outcome(threw, fault, ret) == [threw |-> threw, fault |-> fault, ret |-> ret]

\* min() without the test of empty().
min_unchecked(m) ==
    LET n == finMin(m, m.root_)
    IN  IF n = NULL THEN Outcome(FALSE, TRUE, 0)
        ELSE Outcome(FALSE, FALSE, m.heap[n].value_)

\* value_type min() const
min(m) ==
    IF empty(m) THEN Outcome(TRUE, FALSE, 0)
    ELSE LET n == finMin(m, m.root_)
         IN  IF n = NULL THEN Outcome(FALSE, TRUE, 0)
             ELSE Outcome(FALSE, FALSE, m.heap[n].value_)

\* value_type max() const
max(m) ==
    IF empty(m) THEN Outcome(TRUE, FALSE, 0)
    ELSE LET n == finMax(m, m.root_)
         IN  IF n = NULL THEN Outcome(FALSE, TRUE, 0)
             ELSE Outcome(FALSE, FALSE, m.heap[n].value_)

\* A const query returns: the tree is as it was.
Query(op, out) ==
    Return(IF out.fault THEN Fault(Cur) ELSE Cur,
           [Call(op, 0) EXCEPT !.threw = out.threw, !.ret = out.ret])

min_call == Query("min", min(Cur)) /\ abs' = abs

max_call == Query("max", max(Cur)) /\ abs' = abs

Insert(v) == insert_value(v) /\ UNCHANGED <<rt, solo>>

Remove(v) == remove_value(v) /\ UNCHANGED <<rt, solo>>

\* void clear() noexcept
Clear ==
    /\ Return(clear(Cur), Call("clear", 0))
    /\ abs' = {}
    /\ UNCHANGED <<rt, solo>>

\* bool contains( const value_type &value ) const noexcept
Contains(v) ==
    /\ Return(Cur, [Call("contains", v) EXCEPT !.ret = contains(Cur, v)])
    /\ UNCHANGED <<abs, rt, solo>>

Min == min_call /\ UNCHANGED <<rt, solo>>

Max == max_call /\ UNCHANGED <<rt, solo>>

\* size_type size() const noexcept
Size ==
    /\ Return(Cur, [Call("size", 0) EXCEPT !.ret = size(Cur)])
    /\ UNCHANGED <<abs, rt, solo>>

\* bool empty() const noexcept
Empty ==
    /\ Return(Cur, [Call("empty", 0) EXCEPT !.ret = empty(Cur)])
    /\ UNCHANGED <<abs, rt, solo>>

Next ==
    \/ \E v \in Values : Insert(v)
    \/ \E v \in Values : Remove(v)
    \/ Clear
    \/ \E v \in Values : Contains(v)
    \/ Min
    \/ Max
    \/ Size
    \/ Empty

Spec == Init /\ [][Next]_vars

(***************************************************************************)
(* Round trips: a set of distinct values is chosen, all of them are        *)
(* inserted in any order, then all of them are removed in any order, and   *)
(* min() and max() are called on what is left.                             *)
(***************************************************************************)
InitRT ==
    /\ heap = [x \in {} |-> NULL]
    /\ root_ = NULL
    /\ size_ = 0
    /\ last = Call("avl_tree", 0)
    /\ abs = {}
    /\ \E S \in SUBSET Values :
           S # {} /\ rt = [goal |-> S, pend |-> S, left |-> S]
    /\ Alone

RTInsert(v) ==
    /\ v \in rt.pend
    /\ insert_value(v)
    /\ rt' = [rt EXCEPT !.pend = @ \ {v}]
    /\ UNCHANGED solo

RTRemove(v) ==
    /\ rt.pend = {}
    /\ v \in rt.left
    /\ remove_value(v)
    /\ rt' = [rt EXCEPT !.left = @ \ {v}]
    /\ UNCHANGED solo

RTDone == rt.goal # {} /\ rt.pend = {} /\ rt.left = {}

RTMin == RTDone /\ min_call /\ UNCHANGED <<rt, solo>>

RTMax == RTDone /\ max_call /\ UNCHANGED <<rt, solo>>

NextRT ==
    \/ \E v \in Values : RTInsert(v)
    \/ \E v \in Values : RTRemove(v)
    \/ RTMin
    \/ RTMax

SpecRT == InitRT /\ [][NextRT]_vars

(***************************************************************************)
(* Two tree objects, a and b, on one heap: the members that take another   *)
(* avl_tree.  A member function runs on a machine whose root_ and size_    *)
(* are those of *this; the machine's field tree is the function's          *)
(* parameter, with self set when the parameter is *this itself.            *)
(***************************************************************************)
\* Element values of the two trees.
MaxPair == 3

PairValues == 1..MaxPair

\* Addresses of the nodes of a, of b and of operator='s local copy.
PairIds == 1..(3 * MaxPair)

Objects == {"a", "b"}

\* The fields of object x.
Obj(x) ==
    IF x = "a" THEN [root_ |-> root_, size_ |-> size_]
    ELSE [root_ |-> other.root_, size_ |-> other.size_]

\* A member function of x is entered with parameter y.
Enter(x, y) ==
    [heap |-> heap, root_ |-> Obj(x).root_, size_ |-> Obj(x).size_,
     fault |-> FALSE, singles |-> 0, doubles |-> 0, created |-> 0,
     destroyed |-> 0,
     tree |-> [self |-> x = y, root_ |-> Obj(y).root_, size_ |-> Obj(y).size_]]

\* A constructor of a new object is entered with parameter y.
Construct(y) ==
    [heap |-> heap, root_ |-> NULL, size_ |-> 0,
     fault |-> FALSE, singles |-> 0, doubles |-> 0, created |-> 0,
     destroyed |-> 0,
     tree |-> [self |-> FALSE, root_ |-> Obj(y).root_, size_ |-> Obj(y).size_]]

\* tree.root_ and tree.size_ as the function reads them.
tree_root(m) == IF m.tree.self THEN m.root_ ELSE m.tree.root_
tree_size(m) == IF m.tree.self THEN m.size_ ELSE m.tree.size_

\* The machine as a const member function of the parameter sees it.
AsTree(m) == [m EXCEPT !.root_ = tree_root(m), !.size_ = tree_size(m)]

\* The address operator new returns.  Which free address it is makes no
\* difference to a caller, the addresses being renamed when the call returns.
Fresh(m) ==
    IF PairIds \ DOMAIN m.heap = {} THEN NULL
    ELSE CHOOSE i \in PairIds \ DOMAIN m.heap :
             \A j \in PairIds \ DOMAIN m.heap : i <= j

\* make_unique<node>( value, left, right, height ) at address id.
make_unique_node(m, id, value, left, right, h) ==
    IF m.fault \/ id = NULL \/ Live(m, id) THEN Fault(m)
    ELSE [m EXCEPT !.heap = [x \in DOMAIN m.heap \cup {id} |->
                                IF x = id
                                THEN [value_ |-> value, left_ |-> left,
                                      right_ |-> right, height_ |-> h]
                                ELSE m.heap[x]],
                   !.created = @ + 1]

\* The result of a function that returns a node_ptr: the pointer and the
\* machine it leaves.
Made(m, p) == [m |-> m, p |-> p]

clone_node(m, src, left, right) ==
    Made(make_unique_node(m, Fresh(m), src.value_, left, right, src.height_),
         IF m.fault THEN NULL ELSE Fresh(m))

\* clone_tree handing back the node it was given.
clone_tree_shared(m, r) == Made(m, r)

\* avl_tree::clone_tree
RECURSIVE clone_tree(_, _)
clone_right(src, l, r) == clone_node(r.m, src, l.p, r.p)

clone_left(m, src, l) == clone_right(src, l, clone_tree(l.m, src.right_))

clone_tree(m, r) ==
    IF r = NULL THEN Made(m, NULL)
    ELSE IF m.fault \/ ~Live(m, r) THEN Made(Fault(m), NULL)
    ELSE clone_left(m, m.heap[r], clone_tree(m, m.heap[r].left_))

\* void swap( avl_tree &tree ) noexcept
swap(m) ==
    IF m.tree.self THEN m
    ELSE [m EXCEPT !.root_ = m.tree.root_, !.size_ = m.tree.size_,
                   !.tree.root_ = m.root_, !.tree.size_ = m.size_]

\* The result of a const function: its value, and whether it used a cursor
\* whose stack has no live top.
Result(ret, fault) == [ret |-> ret, fault |-> fault]

\* equal stopping after the first pair of elements.
equal_heads(m, beg1, end1, beg2) ==
    IF it_eq(beg1, end1) THEN Result(TRUE, FALSE)
    ELSE IF ~it_ok(m, beg1) \/ ~it_ok(m, beg2) THEN Result(FALSE, TRUE)
    ELSE Result(it_deref(m, beg1) = it_deref(m, beg2), FALSE)

\* mystl::equal( beg1, end1, beg2 )
RECURSIVE equal(_, _, _, _)
equal(m, beg1, end1, beg2) ==
    IF it_eq(beg1, end1) THEN Result(TRUE, FALSE)
    ELSE IF ~it_ok(m, beg1) \/ ~it_ok(m, beg2) THEN Result(FALSE, TRUE)
    ELSE IF it_deref(m, beg1) # it_deref(m, beg2) THEN Result(FALSE, FALSE)
    ELSE equal(m, it_next(m, beg1), end1, it_next(m, beg2))

\* std::lexicographical_compare( first1, last1, first2, last2 )
RECURSIVE lexicographical_compare(_, _, _, _, _)
lexicographical_compare(m, first1, last1, first2, last2) ==
    IF it_eq(first1, last1) \/ it_eq(first2, last2)
    THEN Result(it_eq(first1, last1) /\ ~it_eq(first2, last2), FALSE)
    ELSE IF ~it_ok(m, first1) \/ ~it_ok(m, first2) THEN Result(FALSE, TRUE)
    ELSE IF it_deref(m, first1) < it_deref(m, first2) THEN Result(TRUE, FALSE)
    ELSE IF it_deref(m, first2) < it_deref(m, first1) THEN Result(FALSE, FALSE)
    ELSE lexicographical_compare(m, it_next(m, first1), last1,
                                 it_next(m, first2), last2)

\* The name of the parameter as an object: this when it is *this.
TreeName(m) == IF m.tree.self THEN "this" ELSE "tree"

\* bool operator==( const avl_tree &other ) const
operator_eq(m) ==
    IF m.tree.self THEN Result(TRUE, FALSE)
    ELSE IF size(m) # size(AsTree(m)) THEN Result(FALSE, FALSE)
    ELSE equal(m, begin(m, "this"), end_(m, "this"),
               begin(AsTree(m), TreeName(m)))

\* bool operator!=( const avl_tree &other ) const
operator_ne(m) == Result(~operator_eq(m).ret, operator_eq(m).fault)

\* bool operator<( const avl_tree &other ) const noexcept
operator_lt(m) ==
    lexicographical_compare(m, begin(m, "this"), end_(m, "this"),
                            begin(AsTree(m), TreeName(m)),
                            end_(AsTree(m), TreeName(m)))

\* The machine of a call other.f( *this ).
Flip(m) ==
    IF m.tree.self THEN m
    ELSE [m EXCEPT !.root_ = m.tree.root_, !.size_ = m.tree.size_,
                   !.tree.root_ = m.root_, !.tree.size_ = m.size_]

\* bool operator>( const avl_tree &other ) const noexcept
operator_gt(m) == operator_lt(Flip(m))

\* bool operator>=( const avl_tree &other ) const noexcept
operator_ge(m) == Result(~operator_lt(m).ret, operator_lt(m).fault)

\* bool operator<=( const avl_tree &other ) const noexcept
operator_le(m) ==
    Result(~operator_lt(Flip(m)).ret, operator_lt(Flip(m)).fault)

\* avl_tree( const avl_tree &tree )
copy_root(m, c) == [Reset(c.m, RootSlot, c.p) EXCEPT !.size_ = tree_size(m)]

copy_constructor(m) == copy_root(m, clone_tree(m, tree_root(m)))

\* avl_tree( avl_tree &&tree ) noexcept
move_constructor(m) == swap(m)

\* avl_tree &operator=( const avl_tree &tree ): copy is a local tree that
\* takes the clone, is swapped with *this and is destroyed on return.
copy_local(m, c) ==
    [c.m EXCEPT !.tree = [self |-> FALSE, root_ |-> c.p, size_ |-> tree_size(m)]]

copy_destroy(m, s) == [Destroy(s, s.tree.root_) EXCEPT !.tree = m.tree]

copy_swap(m, c) == copy_destroy(m, swap(copy_local(m, c)))

copy_assignment(m) == copy_swap(m, clone_tree(m, tree_root(m)))

\* avl_tree &operator=( avl_tree &&tree ) noexcept
move_assignment(m) ==
    IF operator_ne(m).fault THEN Fault(m)
    ELSE IF operator_ne(m).ret THEN swap(clear(m))
    ELSE m

\* ~avl_tree(): root_ is destroyed, and with it every node.
destructor(m) == Reset(m, RootSlot, NULL)

(***************************************************************************)
(* The calls on a and b.  When a call returns, the nodes of a are          *)
(* renumbered by their in-order position, the nodes of b follow them in    *)
(* their in-order position, and nodes neither tree reaches come last.      *)
(***************************************************************************)
\* The fields *this and the parameter have when the machine stops.
ThisOf(m) == [root_ |-> m.root_, size_ |-> m.size_]
TreeOf(m) == [root_ |-> tree_root(m), size_ |-> tree_size(m)]

\* The fields of object o after x.f( y ) stopped in m.
After(m, x, y, o) ==
    IF o = x THEN ThisOf(m) ELSE IF o = y THEN TreeOf(m) ELSE Obj(o)

\* The nodes in their new order: those of a, those of b, the rest.
PairOrder(h, ra, rb) ==
    InOrderNodes(h, ra) \o InOrderNodes(h, rb)
        \o Ascending(DOMAIN h \ (SeqRange(InOrderNodes(h, ra))
                                    \cup SeqRange(InOrderNodes(h, rb))))

\* The new address of p.
Renamed(h, order, p) ==
    IF p = NULL THEN NULL
    ELSE IF p \in DOMAIN h THEN CHOOSE i \in 1..Len(order) : order[i] = p
    ELSE 3 * MaxPair + 1

\* The heap under the renaming.
RenumberPair(h, order) ==
    [i \in 1..Len(order) |->
        [h[order[i]] EXCEPT !.left_ = Renamed(h, order, @),
                            !.right_ = Renamed(h, order, @)]]

\* x.f( y ) returns, b being constructed or not as made says.
ReturnPair(m, x, y, made, call) ==
    \E stop \in {m} :
    \E order \in {PairOrder(stop.heap, After(stop, x, y, "a").root_,
                            After(stop, x, y, "b").root_)} :
        /\ heap' = RenumberPair(stop.heap, order)
        /\ root_' = Renamed(stop.heap, order, After(stop, x, y, "a").root_)
        /\ size_' = After(stop, x, y, "a").size_
        /\ other' = IF made
                     THEN [made |-> TRUE,
                           root_ |-> Renamed(stop.heap, order,
                                             After(stop, x, y, "b").root_),
                           size_ |-> After(stop, x, y, "b").size_]
                     ELSE NoTree
        /\ last' = [call EXCEPT !.fault = stop.fault,
                                !.singles = stop.singles,
                                !.doubles = stop.doubles,
                                !.created = stop.created,
                                !.destroyed = stop.destroyed]
        /\ UNCHANGED <<abs, rt, cursor, mq, th, log, run, comp, pq, us>>

\* The objects that exist.
Made_(x) == IF x = "a" THEN TRUE ELSE other.made

\* avl_tree a; and b not yet declared.
InitPair ==
    /\ heap = [x \in {} |-> NULL]
    /\ root_ = NULL
    /\ size_ = 0
    /\ last = Call("avl_tree", 0)
    /\ abs = {}
    /\ rt = NoPlan
    /\ Alone

\* x.insert( v )
PairInsert(x, v) ==
    /\ Made_(x)
    /\ ReturnPair(insert(Enter(x, x), v, RootSlot, Fresh(Enter(x, x))),
                  x, x, other.made, Call("insert", <<x>>))

\* x.remove( v )
PairRemove(x, v) ==
    /\ Made_(x)
    /\ ReturnPair(remove(Enter(x, x), Temp(v), RootSlot),
                  x, x, other.made, Call("remove", <<x>>))

\* x.clear()
PairClear(x) ==
    /\ Made_(x)
    /\ ReturnPair(clear(Enter(x, x)), x, x, other.made, Call("clear", <<x>>))

\* avl_tree b;
DefaultConstruct ==
    /\ ~other.made
    /\ ReturnPair(Construct("b"), "b", "b", TRUE, Call("avl_tree", <<"b">>))

\* avl_tree b( a );
CopyConstruct ==
    /\ ~other.made
    /\ ReturnPair(copy_constructor(Construct("a")), "b", "a", TRUE,
                  Call("copy_constructor", <<"b", "a">>))

\* avl_tree b( std::move( a ) );
MoveConstruct ==
    /\ ~other.made
    /\ ReturnPair(move_constructor(Construct("a")), "b", "a", TRUE,
                  Call("move_constructor", <<"b", "a">>))

\* b goes out of scope.
Destruct ==
    /\ other.made
    /\ ReturnPair(destructor(Enter("b", "b")), "b", "b", FALSE,
                  Call("destructor", <<"b">>))

\* x = y;
CopyAssign(x, y) ==
    /\ Made_(x) /\ Made_(y)
    /\ ReturnPair(copy_assignment(Enter(x, y)), x, y, other.made,
                  Call("copy_assignment", <<x, y>>))

\* x = std::move( y );
MoveAssignment(x, y) ==
    /\ Made_(x) /\ Made_(y)
    /\ ReturnPair(move_assignment(Enter(x, y)), x, y, other.made,
                  Call("move_assignment", <<x, y>>))

\* x.swap( y );
Swap(x, y) ==
    /\ Made_(x) /\ Made_(y)
    /\ ReturnPair(swap(Enter(x, y)), x, y, other.made, Call("swap", <<x, y>>))

\* The six comparisons of x with y, in the order == != < > <= >=.
Compared(m) ==
    <<operator_eq(m), operator_ne(m), operator_lt(m), operator_gt(m),
      operator_le(m), operator_ge(m)>>

Compare(x, y) ==
    /\ Made_(x) /\ Made_(y)
    /\ \E c \in {Compared(Enter(x, y))} :
           ReturnPair(IF \E i \in 1..6 : c[i].fault
                      THEN Fault(Enter(x, y)) ELSE Enter(x, y),
                      x, y, other.made,
                      [Call("compare", <<x, y>>) EXCEPT
                          !.ret = [i \in 1..6 |-> c[i].ret]])

NextPair ==
    \/ \E x \in Objects, v \in PairValues : PairInsert(x, v)
    \/ \E x \in Objects, v \in PairValues : PairRemove(x, v)
    \/ \E x \in Objects : PairClear(x)
    \/ DefaultConstruct
    \/ CopyConstruct
    \/ MoveConstruct
    \/ Destruct
    \/ \E x \in Objects, y \in Objects : CopyAssign(x, y)
    \/ \E x \in Objects, y \in Objects : MoveAssignment(x, y)
    \/ \E x \in Objects, y \in Objects : Swap(x, y)
    \/ \E x \in Objects, y \in Objects : Compare(x, y)

SpecPair == InitPair /\ [][NextPair]_vars

(***************************************************************************)
(* A client walks the tree a with a cursor: it = a.begin(), then *it and   *)
(* ++it again and again.  cursor.seen is what *it has returned so far.     *)
(* While the cursor exists the tree is not changed.  operator* and         *)
(* operator++ call stack_.top(), which throws on an empty stack; that and  *)
(* a top that is no live node set cursor.fault, and the walk stops.        *)
(***************************************************************************)
\* it = a.begin()
Taken(m) ==
    [made |-> TRUE, cur |-> begin(m, This), seen |-> <<>>, stale |-> FALSE,
     fault |-> FALSE]

\* use( *it ); ++it;
Stepped(m, c) ==
    IF ~it_ok(m, c.cur) THEN [c EXCEPT !.fault = TRUE]
    ELSE [c EXCEPT !.seen = Append(@, it_deref(m, c.cur)),
                   !.cur = it_next(m, c.cur)]

\* it == a.end()
AtEnd(m, c) == it_eq(c.cur, end_(m, This))

Begin ==
    /\ ~cursor.made
    /\ cursor' = Taken(Cur)
    /\ last' = Call("begin", 0)
    /\ UNCHANGED <<heap, root_, size_, abs, rt, other, mq, th, log, run, comp, pq, us>>

Advance ==
    /\ cursor.made
    /\ ~cursor.fault
    /\ cursor' = Stepped(Cur, cursor)
    /\ UNCHANGED <<heap, root_, size_, last, abs, rt, other, mq, th, log,
                   run, comp, pq, us>>

\* The cursor goes out of scope.
Drop ==
    /\ cursor.made
    /\ cursor' = NoCursor
    /\ UNCHANGED <<heap, root_, size_, last, abs, rt, other, mq, th, log,
                   run, comp, pq, us>>

IterInsert(v) == ~cursor.made /\ Insert(v)

IterRemove(v) == ~cursor.made /\ Remove(v)

IterClear == ~cursor.made /\ Clear

NextIter ==
    \/ \E v \in Values : IterInsert(v)
    \/ \E v \in Values : IterRemove(v)
    \/ IterClear
    \/ Begin
    \/ Advance
    \/ Drop

SpecIter == Init /\ [][NextIter]_vars

(***************************************************************************)
(* A client keeps a cursor on the tree a across one insert, remove or      *)
(* clear.  When the call returns the addresses in the cursor's stack are   *)
(* renamed with the heap, the address of a destroyed node becoming one     *)
(* that is never handed out again.  cursor.stale records that a node was   *)
(* created or destroyed after the cursor was taken.                        *)
(***************************************************************************)
\* Element values of the tree that is changed under a cursor.
MaxStale == 3

StaleValues == 1..MaxStale

\* The cursor c after a call that stopped in m, under the renaming.
Kept(c, m, order) ==
    IF ~c.made THEN c
    ELSE [c EXCEPT !.cur.stack_ = [i \in 1..Len(c.cur.stack_) |->
                                      Renamed(m.heap, order, c.cur.stack_[i])],
                   !.stale = c.stale \/ m.created + m.destroyed > 0]

ReturnStale(m, call) ==
    \E stop \in {m} :
    \E order \in {PairOrder(stop.heap, stop.root_, NULL)} :
        /\ heap' = RenumberPair(stop.heap, order)
        /\ root_' = Renamed(stop.heap, order, stop.root_)
        /\ size_' = stop.size_
        /\ cursor' = Kept(cursor, stop, order)
        /\ last' = [call EXCEPT !.fault = stop.fault,
                                !.singles = stop.singles,
                                !.doubles = stop.doubles,
                                !.created = stop.created,
                                !.destroyed = stop.destroyed]
        /\ UNCHANGED <<rt, other, mq, th, log, run, comp, pq, us>>

StaleInsert(v) ==
    /\ ~cursor.stale
    /\ ReturnStale(insert(Cur, v, RootSlot, Fresh(Cur)), Call("insert", v))
    /\ abs' = abs \cup {v}

StaleRemove(v) ==
    /\ ~cursor.stale
    /\ ReturnStale(remove(Cur, Temp(v), RootSlot), Call("remove", v))
    /\ abs' = abs \ {v}

StaleClear ==
    /\ ~cursor.stale
    /\ ReturnStale(clear(Cur), Call("clear", 0))
    /\ abs' = {}

NextStale ==
    \/ \E v \in StaleValues : StaleInsert(v)
    \/ \E v \in StaleValues : StaleRemove(v)
    \/ StaleClear
    \/ Begin
    \/ Advance
    \/ Drop

SpecStale == Init /\ [][NextStale]_vars

(***************************************************************************)
(* ThreadQueue<T> (src/ThreadQueue.hpp): mq holds the members queue_,      *)
(* mutex_ (the thread that owns it, or NoThread) and cond_ (the threads    *)
(* blocked in cond_.wait).  th[t].pc is the statement thread t executes    *)
(* next, one step for each statement that touches a member.  log.pushed    *)
(* and log.got are the elements in the order they entered and left queue_; *)
(* log.fault records queue_.front() on an empty queue_.                    *)

(***************************************************************************)
(* A client keeps one cursor, taken with x.begin() or x.end() on either    *)
(* tree, while a and b are changed, copied and swapped.  cursor.origin is  *)
(* the object the cursor was taken on and cursor.from the position it was  *)
(* taken at; neither is read by the cursor's own code.  The client creates *)
(* or destroys nodes at most once while it holds the cursor.               *)
(***************************************************************************)
\* Element values of the trees under the kept cursor.
MaxCursor == 2

CursorValues == 1..MaxCursor

\* it = x.begin() or it = x.end()
TakenAt(x, end) ==
    [made |-> TRUE, cur |-> const_iterator(Enter(x, x), x, end),
     seen |-> <<>>, stale |-> FALSE, fault |-> FALSE, origin |-> x,
     from |-> IF end THEN Obj(x).size_ ELSE 0]

TakeCursor(x, end) ==
    /\ ~cursor.made
    /\ Made_(x)
    /\ cursor' = TakenAt(x, end)
    /\ last' = Call(IF end THEN "end" ELSE "begin", <<x>>)
    /\ UNCHANGED <<heap, root_, size_, abs, rt, other, mq, th, log, run,
                   comp, pq, us>>

\* The trees and the record of the call when x.f( y ) stopped in stop.
ReturnTrees(stop, order, x, y, made, call) ==
    /\ heap' = RenumberPair(stop.heap, order)
    /\ root_' = Renamed(stop.heap, order, After(stop, x, y, "a").root_)
    /\ size_' = After(stop, x, y, "a").size_
    /\ other' = IF made
                 THEN [made |-> TRUE,
                       root_ |-> Renamed(stop.heap, order,
                                         After(stop, x, y, "b").root_),
                       size_ |-> After(stop, x, y, "b").size_]
                 ELSE NoTree
    /\ last' = [call EXCEPT !.fault = stop.fault,
                            !.singles = stop.singles,
                            !.doubles = stop.doubles,
                            !.created = stop.created,
                            !.destroyed = stop.destroyed]

\* x.f( y ) returns while the cursor exists.
ReturnCursor(m, x, y, made, call) ==
    \E stop \in {m} :
    \E order \in {PairOrder(stop.heap, After(stop, x, y, "a").root_,
                            After(stop, x, y, "b").root_)} :
        /\ ReturnTrees(stop, order, x, y, made, call)
        /\ cursor' = Kept(cursor, stop, order)
        /\ UNCHANGED <<abs, rt, mq, th, log, run, comp, pq, us>>

CursorInsert(x, v) ==
    /\ Made_(x)
    /\ ~cursor.stale
    /\ ReturnCursor(insert(Enter(x, x), v, RootSlot, Fresh(Enter(x, x))),
                    x, x, other.made, Call("insert", <<x>>))

CursorRemove(x, v) ==
    /\ Made_(x)
    /\ ~cursor.stale
    /\ ReturnCursor(remove(Enter(x, x), Temp(v), RootSlot),
                    x, x, other.made, Call("remove", <<x>>))

\* avl_tree b( a );
CursorCopy ==
    /\ ~other.made
    /\ ~cursor.stale
    /\ ReturnCursor(copy_constructor(Construct("a")), "b", "a", TRUE,
                    Call("copy_constructor", <<"b", "a">>))

\* x.swap( y );
CursorSwap(x, y) ==
    /\ Made_(x) /\ Made_(y)
    /\ ReturnCursor(swap(Enter(x, y)), x, y, other.made,
                    Call("swap", <<x, y>>))

NextCursor ==
    \/ \E x \in Objects, v \in CursorValues : CursorInsert(x, v)
    \/ \E x \in Objects, v \in CursorValues : CursorRemove(x, v)
    \/ CursorCopy
    \/ \E x \in Objects, y \in Objects : CursorSwap(x, y)
    \/ \E x \in Objects, end \in BOOLEAN : TakeCursor(x, end)
    \/ Advance
    \/ Drop

SpecCursor == InitPair /\ [][NextCursor]_vars

(***************************************************************************)
(* Two trees of one type avl_tree<int, Comp> whose comparator type Comp    *)
(* has state: an object of Comp orders ascending ("less") or descending    *)
(* ("greater"), and Comp() is ascending.  comp[x] is the member less_ of   *)
(* the object x.  a and b are constructed with avl_tree( Comp comp ), each *)
(* with either comparator.                                                 *)
(***************************************************************************)
\* Element values of the trees with comparators.
MaxComp == 2

CompValues == 1..MaxComp

Comparators == {"less", "greater"}

\* Comp()
DefaultComp == "less"

\* less_( a, b ) of a tree whose less_ is c.
less_by(c, a, b) == IF c = "less" THEN a < b ELSE a > b

\* avl_tree::insert( value_type &&, node_ptr & ) of a tree whose less_ is c.
RECURSIVE insert_by(_, _, _, _, _)
insert_by(m, c, value, s, id) ==
    IF m.fault \/ ~SlotOk(m, s) THEN Fault(m)
    ELSE LET p == get_raw(m, s) IN
    IF p = NULL
    THEN LET m1 == make_unique(m, id, value)
             m2 == Reset(m1, s, id)
         IN  balance([m2 EXCEPT !.size_ = @ + 1], s)
    ELSE IF ~Live(m, p) THEN Fault(m)
    ELSE IF less_by(c, value, m.heap[p].value_)
    THEN balance(insert_by(m, c, value, LeftOf(p), id), s)
    ELSE IF less_by(c, m.heap[p].value_, value)
    THEN balance(insert_by(m, c, value, RightOf(p), id), s)
    ELSE m

\* avl_tree::contains of a tree whose less_ is c: the descent from root_.
RECURSIVE descend_by(_, _, _, _)
descend_by(m, c, value, child) ==
    IF child = NULL THEN FALSE
    ELSE IF less_by(c, value, m.heap[child].value_)
    THEN descend_by(m, c, value, m.heap[child].left_)
    ELSE IF less_by(c, m.heap[child].value_, value)
    THEN descend_by(m, c, value, m.heap[child].right_)
    ELSE TRUE

contains_by(m, c, value) ==
    IF m.root_ = NULL THEN FALSE ELSE descend_by(m, c, value, m.root_)

\* avl_tree a( Comp{...} ), b( Comp{...} );
InitComp ==
    /\ heap = [x \in {} |-> NULL]
    /\ root_ = NULL
    /\ size_ = 0
    /\ last = Call("avl_tree", 0)
    /\ abs = {}
    /\ rt = NoPlan
    /\ other = [made |-> TRUE, root_ |-> NULL, size_ |-> 0]
    /\ comp \in [Objects -> Comparators]
    /\ cursor = NoCursor
    /\ mq = ThreadQueue
    /\ th = NoThreads
    /\ log = NoLog
    /\ run = NoRun
    /\ pq = NoQueue
    /\ us = NoSets

\* x.f( y ) returns; c holds the member less_ of each object.
ReturnComp(m, x, y, made, call, c) ==
    \E stop \in {m} :
    \E order \in {PairOrder(stop.heap, After(stop, x, y, "a").root_,
                            After(stop, x, y, "b").root_)} :
        /\ ReturnTrees(stop, order, x, y, made, call)
        /\ comp' = c
        /\ UNCHANGED <<abs, rt, cursor, mq, th, log, run, pq, us>>

\* x.insert( v )
CompInsert(x, v) ==
    /\ Made_(x)
    /\ ReturnComp(insert_by(Enter(x, x), comp[x], v, RootSlot,
                            Fresh(Enter(x, x))),
                  x, x, other.made, Call("insert", <<x>>), comp)

\* x.swap( y ): root_ and size_ are swapped, less_ is not.
CompSwap(x, y) ==
    /\ Made_(x) /\ Made_(y)
    /\ ReturnComp(swap(Enter(x, y)), x, y, other.made,
                  Call("swap", <<x, y>>), comp)

\* x = y: the local copy and the swap with it leave less_ alone.
CompCopyAssign(x, y) ==
    /\ Made_(x) /\ Made_(y)
    /\ ReturnComp(copy_assignment(Enter(x, y)), x, y, other.made,
                  Call("copy_assignment", <<x, y>>), comp)

\* x = std::move( y )
CompMoveAssign(x, y) ==
    /\ Made_(x) /\ Made_(y)
    /\ ReturnComp(move_assignment(Enter(x, y)), x, y, other.made,
                  Call("move_assignment", <<x, y>>), comp)

\* b goes out of scope.
CompDestruct ==
    /\ other.made
    /\ ReturnComp(destructor(Enter("b", "b")), "b", "b", FALSE,
                  Call("destructor", <<"b">>), comp)

\* avl_tree b( a ): less_ has no initializer and is Comp().
CompCopyConstruct ==
    /\ ~other.made
    /\ ReturnComp(copy_constructor(Construct("a")), "b", "a", TRUE,
                  Call("copy_constructor", <<"b", "a">>),
                  [comp EXCEPT !["b"] = DefaultComp])

\* avl_tree b( std::move( a ) ): less_ has no initializer and is Comp().
CompMoveConstruct ==
    /\ ~other.made
    /\ ReturnComp(move_constructor(Construct("a")), "b", "a", TRUE,
                  Call("move_constructor", <<"b", "a">>),
                  [comp EXCEPT !["b"] = DefaultComp])

NextComp ==
    \/ \E x \in Objects, v \in CompValues : CompInsert(x, v)
    \/ \E x \in Objects, y \in Objects : CompSwap(x, y)
    \/ \E x \in Objects, y \in Objects : CompCopyAssign(x, y)
    \/ \E x \in Objects, y \in Objects : CompMoveAssign(x, y)
    \/ CompDestruct
    \/ CompCopyConstruct
    \/ CompMoveConstruct

SpecComp == InitComp /\ [][NextComp]_vars

(***************************************************************************)
(* priority_queue<int> (src/priority_queue.hpp) over mystl::vector<int>    *)
(* with comp_ = std::less<int>.  pq.container_ holds the elements          *)
(* elem_ .. free_ of the vector and pq.capacity is last_ - elem_.          *)
(* pq.sorted is the multiset of the elements put in and not yet popped,    *)
(* written as a non-increasing sequence; the queue's code never reads it.  *)
(* An iterator beg + i of the code is the index i + 1 of the sequence.     *)
(***************************************************************************)
\* Element values of the queue, and the most elements it holds.
MaxElem == 3
MaxLen == 7

Elems == 1..MaxElem

\* The containers a queue is constructed from.
Containers == UNION {[1..k -> Elems] : k \in 0..MaxLen}

\* *( beg + i )
Deref(a, i) == a[i + 1]

\* *( beg + i ) = v
Assign(a, i, v) == [a EXCEPT ![i + 1] = v]

\* Division of ptrdiff_t, which truncates toward zero.
Quotient(a, b) == IF a >= 0 THEN a \div b ELSE -((-a) \div b)

\* push_heap comparing with the element itself instead of its parent.
RECURSIVE push_heap_loop_no_parent(_, _, _)
push_heap_loop_no_parent(a, elem, elemIndex) ==
    IF elemIndex > 0 /\ less_(Deref(a, elemIndex), elem)
    THEN push_heap_loop_no_parent(
             Assign(a, elemIndex, Deref(a, Quotient(elemIndex - 1, 2))), elem,
             Quotient(elemIndex - 1, 2))
    ELSE Assign(a, elemIndex, elem)

\* push_heap: the while loop and the store after it.
RECURSIVE push_heap_loop(_, _, _)
push_heap_loop(a, elem, elemIndex) ==
    IF elemIndex > 0 /\ less_(Deref(a, Quotient(elemIndex - 1, 2)), elem)
    THEN push_heap_loop(
             Assign(a, elemIndex, Deref(a, Quotient(elemIndex - 1, 2))), elem,
             Quotient(elemIndex - 1, 2))
    ELSE Assign(a, elemIndex, elem)

\* mystl::push_heap( beg, end, comp ) on the whole sequence a.
push_heap(a) ==
    IF Len(a) < 2 THEN a ELSE push_heap_loop(a, Deref(a, Len(a) - 1), Len(a) - 1)

\* fixDown's loop always taking the right child.
RECURSIVE fixDown_loop_right_only(_, _, _, _, _)
fixDown_loop_right_only(a, elem, n, nodeIndex, rightChild) ==
    IF rightChild * 2 + 2 < n
    THEN LET child == 2 * rightChild + 2
         IN  IF ~less_(elem, Deref(a, child))
             THEN [a |-> a, nodeIndex |-> nodeIndex, rightChild |-> child]
             ELSE fixDown_loop_right_only(
                      Assign(a, nodeIndex, Deref(a, child)), elem, n,
                      child, child)
    ELSE [a |-> a, nodeIndex |-> nodeIndex, rightChild |-> rightChild]

\* fixDown: the while loop; it ends by its condition or by the break, which
\* leaves rightChild at the child and nodeIndex at its parent.
RECURSIVE fixDown_loop(_, _, _, _, _)
fixDown_loop(a, elem, n, nodeIndex, rightChild) ==
    IF rightChild * 2 + 2 < n
    THEN LET right == 2 * rightChild + 2
             child == IF less_(Deref(a, right), Deref(a, right - 1))
                      THEN right - 1 ELSE right
         IN  IF ~less_(elem, Deref(a, child))
             THEN [a |-> a, nodeIndex |-> nodeIndex, rightChild |-> child]
             ELSE fixDown_loop(Assign(a, nodeIndex, Deref(a, child)), elem,
                               n, child, child)
    ELSE [a |-> a, nodeIndex |-> nodeIndex, rightChild |-> rightChild]

\* fixDown: the test for a single left child, and the final store.
fixDown_last(l, elem, n) ==
    IF l.rightChild * 2 + 2 = n
           /\ less_(elem, Deref(l.a, 2 * l.rightChild + 1))
    THEN Assign(Assign(l.a, l.nodeIndex, Deref(l.a, 2 * l.rightChild + 1)),
                2 * l.rightChild + 1, elem)
    ELSE Assign(l.a, l.nodeIndex, elem)

\* mystl::fixDown( beg, size, startIndex, comp ), n being size
fixDown(a, n, startIndex) ==
    fixDown_last(fixDown_loop(a, Deref(a, startIndex), n, startIndex,
                              startIndex),
                 Deref(a, startIndex), n)

\* std::swap( *beg, *( --end ) )
swap_ends(a) == [a EXCEPT ![1] = a[Len(a)], ![Len(a)] = a[1]]

\* mystl::pop_heap( beg, end, comp ) on the whole sequence a.
pop_heap(a) ==
    IF Len(a) < 2 THEN a ELSE fixDown(swap_ends(a), Len(a) - 1, 0)

\* make_heap: the for loop, index running down to 0.
RECURSIVE make_heap_loop(_, _)
make_heap_loop(a, index) ==
    IF index >= 0 THEN make_heap_loop(fixDown(a, Len(a), index), index - 1)
    ELSE a

\* mystl::make_heap( beg, end, comp ) on the whole sequence a.
make_heap(a) ==
    IF Len(a) < 2 THEN a
    ELSE make_heap_loop(a, Quotient((Len(a) - 1) - 1, 2))

\* vector::emplace_back: the capacity after it, doubled when full.
expand_double(len, capacity) ==
    IF len = capacity THEN (IF len = 0 THEN 1 ELSE len * 2) ELSE capacity

\* vector::pop_back
pop_back(a) == SubSeq(a, 1, Len(a) - 1)

\* The elements of q from the greatest down.
RECURSIVE SortDown(_)
SortDown(q) ==
    IF q = <<>> THEN <<>>
    ELSE LET i == CHOOSE i \in 1..Len(q) : \A j \in 1..Len(q) : q[j] <= q[i]
         IN  <<q[i]>> \o SortDown(SubSeq(q, 1, i - 1) \o SubSeq(q, i + 1, Len(q)))

\* No queue is constructed.
InitHeap ==
    /\ heap = [x \in {} |-> NULL]
    /\ root_ = NULL
    /\ size_ = 0
    /\ last = Call("", 0)
    /\ abs = {}
    /\ rt = NoPlan
    /\ Alone

\* priority_queue q( comp, c )
PqConstruct ==
    /\ ~pq.made
    /\ \E c \in Containers :
           /\ pq' = [made |-> TRUE, container_ |-> make_heap(c),
                     capacity |-> Len(c), sorted |-> SortDown(c)]
           /\ last' = Call("priority_queue", c)
    /\ UNCHANGED <<heap, root_, size_, abs, rt, other, cursor, mq, th, log,
                   run, comp, us>>

\* q.emplace( v ), which q.push( v ) calls.
PqEmplace(op, v) ==
    /\ pq.made
    /\ Len(pq.container_) < MaxLen
    /\ pq' = [pq EXCEPT
                 !.container_ = push_heap(Append(pq.container_, v)),
                 !.capacity = expand_double(Len(pq.container_), pq.capacity),
                 !.sorted = SortDown(Append(pq.sorted, v))]
    /\ last' = Call(op, v)
    /\ UNCHANGED <<heap, root_, size_, abs, rt, other, cursor, mq, th, log,
                   run, comp, us>>

\* q.pop()
PqPop ==
    /\ pq.made
    /\ IF pq.container_ = <<>>
       THEN /\ pq' = pq
            /\ last' = [Call("pop", 0) EXCEPT !.threw = TRUE]
       ELSE /\ pq' = [pq EXCEPT
                         !.container_ = pop_back(pop_heap(pq.container_)),
                         !.sorted = Tail(pq.sorted)]
            /\ last' = Call("pop", Len(pq.container_))
    /\ UNCHANGED <<heap, root_, size_, abs, rt, other, cursor, mq, th, log,
                   run, comp, us>>

\* q.top()
PqTop ==
    /\ pq.made
    /\ pq' = pq
    /\ last' = IF pq.container_ = <<>>
               THEN [Call("top", 0) EXCEPT !.threw = TRUE]
               ELSE [Call("top", Len(pq.container_)) EXCEPT
                        !.ret = pq.container_[1]]
    /\ UNCHANGED <<heap, root_, size_, abs, rt, other, cursor, mq, th, log,
                   run, comp, us>>

NextHeap ==
    \/ PqConstruct
    \/ \E v \in Elems : PqEmplace("push", v)
    \/ \E v \in Elems : PqEmplace("emplace", v)
    \/ PqPop
    \/ PqTop

SpecHeap == InitHeap /\ [][NextHeap]_vars

(***************************************************************************)
(* unordered_set<int> (src/unordered_set.hpp) with std::hash<int>, which   *)
(* returns its argument, and std::equal_to<int>.  us.a is the set a,       *)
(* default-constructed; us.b is the set b( std::move( a ) ) once it is     *)
(* constructed.  buckets_ is the vector of buckets, each the sequence of   *)
(* the elements of its forward_list from the front.  us.ended is set when  *)
(* the program has been terminated.  A call with undefined behaviour has   *)
(* every outcome the build can give it.                                    *)
(***************************************************************************)
\* The keys 1 .. MaxKey and one key that shares the bucket of 1.
MaxKey == 2

\* The greatest size_ at which the client still inserts.
MaxCount == 3

\* prime_: the first three of its 28 entries.
prime_ == <<53, 97, 193>>

Keys == 1..MaxKey \cup {prime_[1] + 1}

\* buckets_( n, bucket_type() )
EmptyBuckets(n) == [i \in 1..n |-> <<>>]

\* unordered_set::next_prime, for n up to the last entry modelled.
next_prime(n) ==
    LET i == CHOOSE i \in 1..Len(prime_) :
                 /\ prime_[i] >= n
                 /\ \A j \in 1..(i - 1) : prime_[j] < n
    IN  prime_[i]

\* unordered_set::bucket_count
bucket_count(o) == Len(o.buckets_)

\* unordered_set::bucket, for bucket_count() > 0
bucket(o, value) == value % bucket_count(o)

\* buckets_[pos], pos counted from 0.
BucketAt(o, pos) == o.buckets_[pos + 1]

\* The elements in the order "for( auto &elem : *this )" visits them.
RECURSIVE Traverse(_, _)
Traverse(b, i) == IF i > Len(b) THEN <<>> ELSE b[i] \o Traverse(b, i + 1)

\* What a call leaves: the object, and how the call ended.
Ends(o, out) == [o |-> o, out |-> out]

\* The call read hash % 0: the program is terminated, or the index it gets
\* is out of the empty vector and vector::at throws.
DivideByZero(o) == {Ends(o, "ended"), Ends(o, "threw")}

\* load_factor() > max_load_factor(), in float: n / 0 is infinite for n > 0
\* and not a number for n = 0, which compares false.
Overloaded(o) ==
    IF bucket_count(o) = 0 THEN o.size_ > 0 ELSE o.size_ > bucket_count(o)

\* insert: find in the bucket, push_front and ++size_ when absent.
put(o, value) ==
    IF value \in SeqRange(BucketAt(o, bucket(o, value))) THEN o
    ELSE [o EXCEPT !.buckets_[bucket(o, value) + 1] = <<value>> \o @,
                   !.size_ = @ + 1]

\* rehash: other.insert( std::move( elem ) ) for the elements q from i on.
RECURSIVE Refill(_, _, _)
Refill(other_, q, i) ==
    IF i > Len(q) THEN other_ ELSE Refill(put(other_, q[i]), q, i + 1)

\* unordered_set::rehash.  With no bucket, begin() throws out of a noexcept
\* function.  swap exchanges buckets_ only, so size_ stays.
us_rehash(o, size_hint) ==
    IF size_hint <= bucket_count(o) THEN Ends(o, "ok")
    ELSE IF next_prime(size_hint) <= bucket_count(o) THEN Ends(o, "ok")
    ELSE IF bucket_count(o) = 0 THEN Ends(o, "ended")
    ELSE Ends([o EXCEPT !.buckets_ =
                     Refill([made |-> TRUE,
                             buckets_ |-> EmptyBuckets(next_prime(size_hint)),
                             size_ |-> 0],
                            Traverse(o.buckets_, 1), 1).buckets_],
                 "ok")

\* unordered_set::insert( value_type && ) after the rehash.
us_insert_at(r, value) ==
    IF r.out # "ok" THEN {r}
    ELSE IF bucket_count(r.o) = 0 THEN DivideByZero(r.o)
    ELSE {Ends(put(r.o, value), "ok")}

\* unordered_set::insert( value_type && )
us_insert(o, value) ==
    us_insert_at(IF Overloaded(o) THEN us_rehash(o, bucket_count(o) + 1)
                 ELSE Ends(o, "ok"),
                 value)

\* The sequences left of q when any of its elements may be removed.
RECURSIVE Thinned(_)
Thinned(q) ==
    IF q = <<>> THEN {<<>>}
    ELSE {<<q[1]>> \o t : t \in Thinned(Tail(q))} \cup Thinned(Tail(q))

\* forward_list::remove( *position ) for the element at place i of the
\* bucket q: the node is destroyed, and the elements behind it are compared
\* with the destroyed node's value, so any of them may go as well.
remove_at(q, i) ==
    {SubSeq(q, 1, i - 1) \o t : t \in Thinned(SubSeq(q, i + 1, Len(q)))}

\* erase( find( value ) ): find returns end() for an absent value and erase
\* throws; otherwise the element is removed, size_ is left alone, and
\* ++position reads the destroyed node.
us_erase(o, value) ==
    IF bucket_count(o) = 0 THEN DivideByZero(o)
    ELSE IF value \notin SeqRange(BucketAt(o, bucket(o, value)))
    THEN {Ends(o, "threw")}
    ELSE LET q == BucketAt(o, bucket(o, value))
             i == CHOOSE i \in 1..Len(q) : q[i] = value
         IN  {Ends([o EXCEPT !.buckets_[bucket(o, value) + 1] = t], out) :
                  t \in remove_at(q, i), out \in {"ok", "ended"}}

\* unordered_set::clear
us_clear(o) == [o EXCEPT !.buckets_ = <<>>, !.size_ = 0]

\* unordered_set a;
InitSet ==
    /\ heap = [x \in {} |-> NULL]
    /\ root_ = NULL
    /\ size_ = 0
    /\ last = Call("unordered_set", 0)
    /\ abs = {}
    /\ rt = NoPlan
    /\ other = NoTree
    /\ cursor = NoCursor
    /\ mq = ThreadQueue
    /\ th = NoThreads
    /\ log = NoLog
    /\ run = NoRun
    /\ comp = NoComp
    /\ pq = NoQueue
    /\ us = [a |-> [made |-> TRUE, buckets_ |-> EmptyBuckets(next_prime(0)),
                    size_ |-> 0],
             b |-> NoSet, ended |-> FALSE]

\* The call op( arg ) on x ends as r says.
ReturnSet(x, r, op, arg) ==
    /\ us' = [us EXCEPT ![x] = r.o, !.ended = r.out = "ended"]
    /\ last' = [Call(op, arg) EXCEPT !.threw = r.out = "threw",
                                     !.fault = r.out = "ended"]
    /\ UNCHANGED <<heap, root_, size_, abs, rt, other, cursor, mq, th, log,
                   run, comp, pq>>

\* x.insert( v )
UsInsert(x, v) ==
    /\ ~us.ended /\ us[x].made
    /\ us[x].size_ < MaxCount
    /\ \E r \in us_insert(us[x], v) : ReturnSet(x, r, "insert", <<x, v>>)

\* x.erase( x.find( v ) )
UsErase(x, v) ==
    /\ ~us.ended /\ us[x].made
    /\ \E r \in us_erase(us[x], v) : ReturnSet(x, r, "erase", <<x, v>>)

\* x.clear()
UsClear(x) ==
    /\ ~us.ended /\ us[x].made
    /\ ReturnSet(x, Ends(us_clear(us[x]), "ok"), "clear", <<x>>)

\* x.rehash( bucket_count() + 1 ), as reserve calls it.
UsRehash(x) ==
    /\ ~us.ended /\ us[x].made
    /\ bucket_count(us[x]) < prime_[Len(prime_)]
    /\ ReturnSet(x, us_rehash(us[x], bucket_count(us[x]) + 1), "rehash", <<x>>)

\* unordered_set b( std::move( a ) ): b has no bucket and size_ 0, and swap
\* exchanges buckets_ only.
UsMoveConstruct ==
    /\ ~us.ended /\ ~us.b.made
    /\ us' = [us EXCEPT !.b = [made |-> TRUE, buckets_ |-> us.a.buckets_,
                               size_ |-> 0],
                        !.a.buckets_ = <<>>]
    /\ last' = Call("move_constructor", <<"b", "a">>)
    /\ UNCHANGED <<heap, root_, size_, abs, rt, other, cursor, mq, th, log,
                   run, comp, pq>>

NextSet ==
    \/ \E x \in Objects, v \in Keys : UsInsert(x, v)
    \/ \E x \in Objects, v \in Keys : UsErase(x, v)
    \/ \E x \in Objects : UsClear(x)
    \/ \E x \in Objects : UsRehash(x)
    \/ UsMoveConstruct

SpecSet == InitSet /\ [][NextSet]_vars

(***************************************************************************)
\* Threads that call the members in any order, and the pushes they make.
MaxClients == 2
MaxPush == 2

Clients == 1..MaxClients

\* What the threads of the queue leave alone.
trees ==
    <<heap, root_, size_, last, abs, rt, other, cursor, run, comp, pq, us>>

\* A thread that has not called anything yet.
Thread(role) ==
    [role |-> role, pc |-> "idle", op |-> "", elem |-> 0, ret |-> FALSE, i |-> 0]

\* The statements executed with mutex_ held.
Critical ==
    {"push_queue", "push_unlock", "pop_test", "pop_take", "pop_unlock",
     "try_test", "try_take", "try_unlock"}

\* std::mutex::lock without taking the mutex.
lock_nothing(m, t) == m

\* std::mutex::lock returns to t; std::mutex::unlock
lock(m, t) == [m EXCEPT !.mutex_ = t]
unlock(m) == [m EXCEPT !.mutex_ = NoThread]

\* The statement that follows the construction of the lock.
Locked(pc) ==
    CASE pc = "push_lock" -> "push_queue"
      [] pc = "pop_lock" -> "pop_test"
      [] pc = "pop_relock" -> "pop_test"
      [] pc = "try_lock" -> "try_test"

\* The statement that follows the destruction of the lock.
Unlocked(pc) ==
    CASE pc = "push_unlock" -> "push_notify"
      [] pc = "pop_unlock" -> "pop_ret"
      [] pc = "try_unlock" -> "try_ret"

\* notify_one waking nobody.
notify_lost(waiting) == {}

\* std::condition_variable::notify_one: the threads it may wake, one of them.
notify_one(waiting) == waiting

\* No thread has run off the end of a function.
Running == \A t \in DOMAIN th : th[t].pc # "trap"

\* messageQueue.push( elem ) with an lvalue (op "copy") or an rvalue ("move")
Push(t, op, v) ==
    /\ th[t].pc = "idle"
    /\ th' = [th EXCEPT ![t].pc = "push_lock", ![t].op = op, ![t].elem = v]
    /\ log' = [log EXCEPT !.calls = @ + 1]
    /\ UNCHANGED mq

\* messageQueue.pop( elem )
Pop(t) ==
    /\ th[t].pc = "idle"
    /\ th' = [th EXCEPT ![t].pc = "pop_lock", ![t].op = "pop"]
    /\ UNCHANGED <<mq, log>>

\* messageQueue.try_pop( elem )
TryPop(t) ==
    /\ th[t].pc = "idle"
    /\ th' = [th EXCEPT ![t].pc = "try_lock", ![t].op = "try_pop"]
    /\ UNCHANGED <<mq, log>>

\* std::lock_guard / std::unique_lock lock( mutex_ ), and the lock taken
\* again when cond_.wait wakes.
Lock(t) ==
    /\ th[t].pc \in {"push_lock", "pop_lock", "pop_relock", "try_lock"}
    /\ mq.mutex_ = NoThread
    /\ mq' = lock(mq, t)
    /\ th' = [th EXCEPT ![t].pc = Locked(@)]
    /\ UNCHANGED <<log, trees>>

\* queue_.push( elem )
PushQueue(t) ==
    /\ th[t].pc = "push_queue"
    /\ mq' = [mq EXCEPT !.queue_ = Append(@, th[t].elem)]
    /\ log' = [log EXCEPT !.pushed = Append(@, th[t].elem)]
    /\ th' = [th EXCEPT ![t].pc = "push_unlock"]
    /\ UNCHANGED trees

\* The lock goes out of scope.
Unlock(t) ==
    /\ th[t].pc \in {"push_unlock", "pop_unlock", "try_unlock"}
    /\ mq' = unlock(mq)
    /\ th' = [th EXCEPT ![t].pc = Unlocked(@)]
    /\ UNCHANGED <<log, trees>>

\* cond_.notify_one()
Notify(t) ==
    /\ th[t].pc = "push_notify"
    /\ IF notify_one(mq.cond_) = {}
       THEN /\ th' = [th EXCEPT ![t].pc = "push_ret"]
            /\ UNCHANGED mq
       ELSE \E w \in notify_one(mq.cond_) :
                /\ mq' = [mq EXCEPT !.cond_ = @ \ {w}]
                /\ th' = [th EXCEPT ![t].pc = "push_ret", ![w].pc = "pop_relock"]
    /\ UNCHANGED <<log, trees>>

\* The provider's loop counter after a push: ++i.
Returned(thread) == IF thread.role = "provider" THEN thread.i + 1 ELSE thread.i

\* void push( const value_type & ) returns.
PushReturn(t) ==
    /\ th[t].pc = "push_ret"
    /\ th[t].op = "copy"
    /\ th' = [th EXCEPT ![t] = [Thread(@.role) EXCEPT !.i = Returned(th[t])]]
    /\ UNCHANGED <<mq, log, trees>>

\* bool push( value_type && ) reaches its closing brace without a return
\* statement: the caller gets either bool, or control does not come back.
PushFallsOff(t) ==
    /\ th[t].pc = "push_ret"
    /\ th[t].op = "move"
    /\ \/ \E b \in BOOLEAN :
             th' = [th EXCEPT ![t] = [Thread(@.role) EXCEPT !.i = Returned(th[t]),
                                                        !.ret = b]]
       \/ th' = [th EXCEPT ![t].pc = "trap"]
    /\ UNCHANGED <<mq, log, trees>>

\* cond_.wait( lock, pred ): the predicate is tested with the lock held; if
\* it is false the thread gives up the lock and blocks, in one step.
PopTest(t) ==
    /\ th[t].pc = "pop_test"
    /\ IF mq.queue_ # <<>>
       THEN /\ th' = [th EXCEPT ![t].pc = "pop_take"]
            /\ UNCHANGED mq
       ELSE /\ th' = [th EXCEPT ![t].pc = "pop_wait"]
            /\ mq' = [unlock(mq) EXCEPT !.cond_ = @ \cup {t}]
    /\ UNCHANGED <<log, trees>>

\* A blocked thread wakes without a notification.
Spurious(t) ==
    /\ th[t].pc = "pop_wait"
    /\ t \in mq.cond_
    /\ mq' = [mq EXCEPT !.cond_ = @ \ {t}]
    /\ th' = [th EXCEPT ![t].pc = "pop_relock"]
    /\ UNCHANGED <<log, trees>>

\* elem = std::move( queue_.front() ); queue_.pop();
Take(t, next) ==
    IF mq.queue_ = <<>>
    THEN /\ log' = [log EXCEPT !.fault = TRUE]
         /\ th' = [th EXCEPT ![t].pc = next]
         /\ UNCHANGED mq
    ELSE /\ mq' = [mq EXCEPT !.queue_ = Tail(@)]
         /\ log' = [log EXCEPT !.got = Append(@, Head(mq.queue_))]
         /\ th' = [th EXCEPT ![t].pc = next, ![t].elem = Head(mq.queue_),
                             ![t].ret = TRUE]

PopTake(t) ==
    /\ th[t].pc = "pop_take"
    /\ Take(t, "pop_unlock")
    /\ UNCHANGED trees

\* try_pop testing with cond_.wait, as pop does.
TryTest_waits(t) ==
    /\ th[t].pc = "try_test"
    /\ IF mq.queue_ # <<>>
       THEN /\ th' = [th EXCEPT ![t].pc = "try_take"]
            /\ UNCHANGED mq
       ELSE /\ th' = [th EXCEPT ![t].pc = "pop_wait"]
            /\ mq' = [unlock(mq) EXCEPT !.cond_ = @ \cup {t}]
    /\ UNCHANGED <<log, trees>>

\* if( queue_.empty() ) { return false; }
TryTest(t) ==
    /\ th[t].pc = "try_test"
    /\ th' = [th EXCEPT ![t].pc = IF mq.queue_ = <<>> THEN "try_unlock"
                                  ELSE "try_take",
                        ![t].ret = FALSE]
    /\ UNCHANGED <<mq, log, trees>>

TryTake(t) ==
    /\ th[t].pc = "try_take"
    /\ Take(t, "try_unlock")
    /\ UNCHANGED trees

\* pop or try_pop returns to a caller that goes on to its next call.
PopReturn(t) ==
    /\ th[t].pc \in {"pop_ret", "try_ret"}
    /\ th[t].role = "client"
    /\ th' = [th EXCEPT ![t] = Thread(@.role)]
    /\ UNCHANGED <<mq, log, trees>>

\* The queue of a program that has started MaxClients threads.
InitQueue ==
    /\ heap = [x \in {} |-> NULL]
    /\ root_ = NULL
    /\ size_ = 0
    /\ last = Call("avl_tree", 0)
    /\ abs = {}
    /\ rt = NoPlan
    /\ other = NoTree
    /\ cursor = NoCursor
    /\ mq = ThreadQueue
    /\ th = [t \in Clients |-> Thread("client")]
    /\ log = NoLog
    /\ run = NoRun
    /\ comp = NoComp
    /\ pq = NoQueue
    /\ us = NoSets

\* A client pushes the number of its push among all pushes called.
ClientPush(t, op) ==
    /\ log.calls < MaxPush
    /\ Push(t, op, log.calls + 1)
    /\ UNCHANGED trees

ClientPop(t) == Pop(t) /\ UNCHANGED trees

ClientTryPop(t) == TryPop(t) /\ UNCHANGED trees

NextQueue ==
    /\ Running
    /\ \E t \in Clients :
          \/ \E op \in {"copy", "move"} : ClientPush(t, op)
          \/ ClientPop(t)
          \/ ClientTryPop(t)
          \/ Lock(t)
          \/ PushQueue(t)
          \/ Unlock(t)
          \/ Notify(t)
          \/ PushReturn(t)
          \/ PushFallsOff(t)
          \/ PopTest(t)
          \/ Spurious(t)
          \/ PopTake(t)
          \/ TryTest(t)
          \/ TryTake(t)
          \/ PopReturn(t)

SpecQueue == InitQueue /\ [][NextQueue]_vars

(***************************************************************************)
(* src/Test/ThreadQueueTest.cpp: the thread pvi runs provider( 10, 1 ),    *)
(* which pushes Message-0 .. Message-9, and the threads csm1 and csm2 run  *)
(* consumer, which calls pop and prints what it got, for ever.  Message-i  *)
(* is the number i.  The scheduler is fair: a thread that can execute its  *)
(* next statement does so in the end, and a thread that tries to lock      *)
(* mutex_ gets it if mutex_ is free again and again.  Nothing obliges a    *)
(* blocked thread to wake without a notification.                          *)
(***************************************************************************)
product_num == 10

pvi == 1
csm1 == 2
csm2 == 3

TestThreads == {pvi, csm1, csm2}

InitTest ==
    /\ heap = [x \in {} |-> NULL]
    /\ root_ = NULL
    /\ size_ = 0
    /\ last = Call("avl_tree", 0)
    /\ abs = {}
    /\ rt = NoPlan
    /\ other = NoTree
    /\ cursor = NoCursor
    /\ mq = ThreadQueue
    /\ th = [t \in TestThreads |->
                IF t = pvi THEN Thread("provider") ELSE Thread("consumer")]
    /\ log = NoLog
    /\ run = NoRun
    /\ comp = NoComp
    /\ pq = NoQueue
    /\ us = NoSets

\* messageQueue.push( message ) in the loop of provider
ProviderPush(t) ==
    /\ th[t].role = "provider"
    /\ th[t].i < product_num
    /\ Push(t, "copy", th[t].i)
    /\ UNCHANGED trees

\* The loop of provider is over: "All works done!"
ProviderDone(t) ==
    /\ th[t].role = "provider"
    /\ th[t].pc = "idle"
    /\ th[t].i = product_num
    /\ th' = [th EXCEPT ![t].pc = "done"]
    /\ UNCHANGED <<mq, log, trees>>

\* messageQueue.pop( message ) in the loop of consumer
ConsumerPop(t) ==
    /\ th[t].role = "consumer"
    /\ Pop(t)
    /\ UNCHANGED trees

\* "consumer-id receive: message", and the next turn of the loop
ConsumerReceive(t) ==
    /\ th[t].role = "consumer"
    /\ th[t].pc = "pop_ret"
    /\ th' = [th EXCEPT ![t] = Thread("consumer")]
    /\ UNCHANGED <<mq, log, trees>>

\* The statements of thread t other than locking and waking unnotified.
Statement(t) ==
    \/ ProviderPush(t)
    \/ ProviderDone(t)
    \/ ConsumerPop(t)
    \/ PushQueue(t)
    \/ Unlock(t)
    \/ Notify(t)
    \/ PushReturn(t)
    \/ PopTest(t)
    \/ PopTake(t)
    \/ ConsumerReceive(t)

NextTest ==
    \E t \in TestThreads :
        \/ Statement(t)
        \/ Lock(t)
        \/ Spurious(t)

FairTest ==
    \A t \in TestThreads : WF_vars(Statement(t)) /\ SF_vars(Lock(t))

SpecTest == InitTest /\ [][NextTest]_vars /\ FairTest

(***************************************************************************)
(* What the tree is, read off the heap without the cached fields.          *)
(***************************************************************************)
\* The nodes of the subtree at p.
RECURSIVE Reach(_, _)
Reach(h, p) ==
    IF p \notin DOMAIN h THEN {}
    ELSE {p} \cup Reach(h, h[p].left_) \cup Reach(h, h[p].right_)

\* The height of the subtree at p, counted from the links.
RECURSIVE TrueHeight(_, _)
TrueHeight(h, p) ==
    IF p \notin DOMAIN h THEN 0
    ELSE 1 + std_max(TrueHeight(h, h[p].left_), TrueHeight(h, h[p].right_))

\* The values of the subtree at p: left subtree, node, right subtree.
RECURSIVE InOrder(_, _)
InOrder(h, p) ==
    IF p \notin DOMAIN h THEN <<>>
    ELSE InOrder(h, h[p].left_) \o <<h[p].value_>> \o InOrder(h, h[p].right_)

ValuesBelow(h, p) == {h[n].value_ : n \in Reach(h, p)}

StrictlyAscending(q) == \A i \in 1..(Len(q) - 1) : q[i] < q[i + 1]

Abs(x) == IF x >= 0 THEN x ELSE -x

(***************************************************************************)
(* insert and remove on the tree a, statement by statement.  run.frames is *)
(* the call stack of the private member functions, the last frame being    *)
(* the one that executes; a frame holds the function, its parameters ptr   *)
(* (a slot) and value (a reference), the line it executes next and, for a  *)
(* rotation, its local left or right.  A call in tail position replaces    *)
(* the caller's frame.  The frame's h0 and seq0 record the height of the   *)
(* subtree at ptr when insert or remove was entered with it and its        *)
(* in-order sequence when balance was entered with it; run.start is the    *)
(* tree when the public call was made.  When the last frame returns the    *)
(* public call returns.                                                    *)
(***************************************************************************)
\* Element values of the tree whose calls are followed step by step.
MaxStep == 6

StepValues == 1..MaxStep

Frame(fn, ptr, value, pc, h0) ==
    [fn |-> fn, ptr |-> ptr, value |-> value, pc |-> pc, local |-> NULL,
     h0 |-> h0, seq0 |-> <<>>]

\* The frame that executes, and the frames of its callers.
Top == run.frames[Len(run.frames)]
Callers == SubSeq(run.frames, 1, Len(run.frames) - 1)

\* The machine the executing frame works on.
Now ==
    [Machine(heap, root_, size_) EXCEPT
        !.singles = run.singles, !.doubles = run.doubles,
        !.created = run.created, !.destroyed = run.destroyed]

At(fn, pc) ==
    /\ run.op # ""
    /\ ~run.fault
    /\ Top.fn \in fn
    /\ Top.pc \in pc

\* The statement leaves the machine m and the frames fr.
Goes(m, fr) ==
    /\ IF fr = <<>> /\ ~m.fault
       THEN /\ Return(m, Call(run.op, run.arg))
            /\ abs' = IF run.op = "insert" THEN abs \cup {run.arg}
                      ELSE abs \ {run.arg}
            /\ run' = NoRun
       ELSE /\ heap' = m.heap
            /\ root_' = m.root_
            /\ size_' = m.size_
            /\ run' = [run EXCEPT !.frames = fr, !.fault = m.fault,
                                  !.singles = m.singles, !.doubles = m.doubles,
                                  !.created = m.created,
                                  !.destroyed = m.destroyed]
            /\ UNCHANGED <<last, abs>>
    /\ UNCHANGED <<rt, other, cursor, mq, th, log, comp, pq, us>>

\* The executing frame goes on at line pc, or calls the function of frame f
\* and goes on at line pc when that returns, or returns.
Line(m, pc) == Goes(m, Append(Callers, [Top EXCEPT !.pc = pc]))
Calls(m, pc, f) == Goes(m, Callers \o <<[Top EXCEPT !.pc = pc], f>>)
Returns(m) == Goes(m, Callers)

\* The subtree at slot s: its height counted from the links.
SlotHeight(m, s) == TrueHeight(m.heap, get_raw(m, s))

\* a.insert( v ): lines 290-299, up to the call insert( std::move( value ), root_ )
\* a.remove( v ): lines 428-431, up to the call remove( value, root_ )
StepCall(op, v) ==
    /\ run.op = ""
    /\ run' = [NoRun EXCEPT
                  !.op = op, !.arg = v,
                  !.start = <<Cur>>,
                  !.frames = <<Frame(op, RootSlot, Temp(v),
                                     IF op = "insert" THEN "476" ELSE "575",
                                     SlotHeight(Cur, RootSlot))>>]
    /\ UNCHANGED <<heap, root_, size_, last, abs>>
    /\ UNCHANGED <<rt, other, cursor, mq, th, log, comp, pq, us>>

\* insert, lines 476-494: the tests, and the line they select.
Insert476 ==
    /\ At({"insert"}, {"476"})
    /\ \E m \in {Now} : \E p \in {get_raw(m, Top.ptr)} :
        IF p = NULL
        THEN \* ptr = make_unique<node>( std::move( value ) );
             Line(Reset(make_unique(m, Fresh(m), Read(m, Top.value)),
                        Top.ptr, Fresh(m)), "479")
        ELSE IF less_(Read(m, Top.value), m.heap[p].value_)
        THEN Calls(m, "496", Frame("insert", LeftOf(p), Top.value, "476",
                                   SlotHeight(m, LeftOf(p))))
        ELSE IF less_(m.heap[p].value_, Read(m, Top.value))
        THEN Calls(m, "496", Frame("insert", RightOf(p), Top.value, "476",
                                   SlotHeight(m, RightOf(p))))
        ELSE Returns(m)

\* ++size_;
Insert479 ==
    /\ At({"insert"}, {"479"})
    /\ Line([Now EXCEPT !.size_ = @ + 1], "496")

\* balance( ptr ); the last statement of insert (496) and of remove (603)
CallBalance ==
    /\ At({"insert", "remove"}, {"496", "603"})
    /\ Goes(Now, Append(Callers,
                        [Top EXCEPT !.fn = "balance", !.pc = "506",
                                    !.seq0 = InOrder(heap, get_raw(Now, Top.ptr))]))

\* remove, lines 575-591: the tests.
Remove575 ==
    /\ At({"remove"}, {"575"})
    /\ \E m \in {Now} : \E p \in {get_raw(m, Top.ptr)} :
        IF p = NULL THEN Returns(m)
        ELSE IF ~ReadOk(m, Top.value) THEN Line(Fault(m), "575")
        ELSE IF less_(Read(m, Top.value), m.heap[p].value_)
        THEN Calls(m, "603", Frame("remove", LeftOf(p), Top.value, "575",
                                   SlotHeight(m, LeftOf(p))))
        ELSE IF less_(m.heap[p].value_, Read(m, Top.value))
        THEN Calls(m, "603", Frame("remove", RightOf(p), Top.value, "575",
                                   SlotHeight(m, RightOf(p))))
        ELSE IF m.heap[p].left_ # NULL /\ m.heap[p].right_ # NULL
        THEN Line(m, "593")
        ELSE Line(m, "598")

\* ptr->value_ = finMin( ptr->right_ )->value_;
Remove593 ==
    /\ At({"remove"}, {"593"})
    /\ \E m \in {Now} : \E p \in {get_raw(m, Top.ptr)} :
        Line([m EXCEPT !.heap[p].value_ =
                           m.heap[finMin(m, m.heap[p].right_)].value_], "594")

\* remove( ptr->value_, ptr->right_ );
Remove594 ==
    /\ At({"remove"}, {"594"})
    /\ \E m \in {Now} : \E p \in {get_raw(m, Top.ptr)} :
        Calls(m, "603", Frame("remove", RightOf(p), ValueOfNode(p), "575",
                              SlotHeight(m, RightOf(p))))

\* ptr = ( ptr->left_ ? std::move( ptr->left_ ) : std::move( ptr->right_ ) );
Remove598 ==
    /\ At({"remove"}, {"598"})
    /\ \E m \in {Now} : \E p \in {get_raw(m, Top.ptr)} :
        Line(IF m.heap[p].left_ # NULL
             THEN MoveAssign(m, Top.ptr, LeftOf(p))
             ELSE MoveAssign(m, Top.ptr, RightOf(p)), "599")

\* --size_;
Remove599 ==
    /\ At({"remove"}, {"599"})
    /\ Line([Now EXCEPT !.size_ = @ - 1], "603")

\* balance_choice with the comparison of the grandchildren inverted.
balance_choice_inverted(m, l, r) ==
    IF height(m, l) > height(m, r) + ALLOWED_IMBALANCE
    THEN IF height(m, m.heap[l].left_) < height(m, m.heap[l].right_)
         THEN "single_rotate_left"
         ELSE "double_rotate_left"
    ELSE IF height(m, r) > height(m, l) + ALLOWED_IMBALANCE
    THEN IF height(m, m.heap[r].right_) < height(m, m.heap[r].left_)
         THEN "single_rotate_right"
         ELSE "double_rotate_right"
    ELSE ""

\* balance_choice that never calls a double rotation.
balance_choice_single_only(m, l, r) ==
    IF height(m, l) > height(m, r) + ALLOWED_IMBALANCE
    THEN "single_rotate_left"
    ELSE IF height(m, r) > height(m, l) + ALLOWED_IMBALANCE
    THEN "single_rotate_right"
    ELSE ""

\* balance_choice tolerating a difference of ALLOWED_IMBALANCE + 1.
balance_choice_late(m, l, r) ==
    IF height(m, l) > height(m, r) + ALLOWED_IMBALANCE + 1
    THEN IF height(m, m.heap[l].left_) >= height(m, m.heap[l].right_)
         THEN "single_rotate_left"
         ELSE "double_rotate_left"
    ELSE IF height(m, r) > height(m, l) + ALLOWED_IMBALANCE + 1
    THEN IF height(m, m.heap[r].right_) >= height(m, m.heap[r].left_)
         THEN "single_rotate_right"
         ELSE "double_rotate_right"
    ELSE ""

\* balance, lines 511-532: the rotation to call for *ptr with children l and
\* r, "" for none.
balance_choice(m, l, r) ==
    IF height(m, l) > height(m, r) + ALLOWED_IMBALANCE
    THEN IF height(m, m.heap[l].left_) >= height(m, m.heap[l].right_)
         THEN "single_rotate_left"
         ELSE "double_rotate_left"
    ELSE IF height(m, r) > height(m, l) + ALLOWED_IMBALANCE
    THEN IF height(m, m.heap[r].right_) >= height(m, m.heap[r].left_)
         THEN "single_rotate_right"
         ELSE "double_rotate_right"
    ELSE ""

\* The machine after the choice, with the rotation counted.
Chosen(m, fn) ==
    IF fn \in {"single_rotate_left", "single_rotate_right"} THEN Single(m)
    ELSE Double(m)

\* The first line of a rotation.
Entry(fn) ==
    CASE fn = "single_rotate_left" -> "539"
      [] fn = "single_rotate_right" -> "551"
      [] fn = "double_rotate_left" -> "563"
      [] fn = "double_rotate_right" -> "569"

\* balance, lines 506-532: the tests, and the call they select.
Balance506 ==
    /\ At({"balance"}, {"506"})
    /\ \E m \in {Now} : \E p \in {get_raw(m, Top.ptr)} :
        IF p = NULL THEN Returns(m)
        ELSE \E fn \in {balance_choice(m, m.heap[p].left_, m.heap[p].right_)} :
                 IF fn = "" THEN Line(m, "534")
                 ELSE Calls(Chosen(m, fn), "534",
                            Frame(fn, Top.ptr, Top.value, Entry(fn), 0))

\* ptr->height_ = std::max( height( ptr->left_ ), height( ptr->right_ ) ) + 1;
Balance534 ==
    /\ At({"balance"}, {"534"})
    /\ Returns(balance_height(Now, Top.ptr))

\* The child a single rotation lifts, and the other one.
Lifted(fn) == IF fn = "single_rotate_left" THEN "left_" ELSE "right_"
Lowered(fn) == IF fn = "single_rotate_left" THEN "right_" ELSE "left_"
Field(p, f) == [n |-> p, f |-> f]

\* auto left = std::move( ptr->left_ );      (539)
\* auto right = std::move( ptr->right_ );    (551)
RotateTake ==
    /\ At({"single_rotate_left", "single_rotate_right"}, {"539", "551"})
    /\ \E m \in {Now} : \E p \in {get_raw(m, Top.ptr)} :
        IF ~RotateOk(m, Top.ptr, Lifted(Top.fn))
        THEN Line(Fault(m), Top.pc)
        ELSE Goes(Put(m, Field(p, Lifted(Top.fn)), NULL),
                  Append(Callers,
                         [Top EXCEPT !.local = m.heap[p][Lifted(Top.fn)],
                                     !.pc = IF Top.pc = "539" THEN "540"
                                            ELSE "552"]))

\* ptr->left_ = std::move( left->right_ );   (540)
\* ptr->right_ = std::move( right->left_ );  (552)
RotateInner ==
    /\ At({"single_rotate_left", "single_rotate_right"}, {"540", "552"})
    /\ \E m \in {Now} : \E p \in {get_raw(m, Top.ptr)} :
        Line(MoveAssign(m, Field(p, Lifted(Top.fn)),
                        Field(Top.local, Lowered(Top.fn))),
             IF Top.pc = "540" THEN "542" ELSE "554")

\* ptr->height_ = std::max( height( ptr->left_ ), height( ptr->right_ ) ) + 1;
RotateHeight ==
    /\ At({"single_rotate_left", "single_rotate_right"}, {"542", "554"})
    /\ Line(update_height(Now, get_raw(Now, Top.ptr)),
            IF Top.pc = "542" THEN "543" ELSE "555")

\* left->height_ = std::max( height( left->left_ ), height( ptr ) ) + 1;    (543)
\* right->height_ = std::max( height( right->right_ ), height( ptr ) ) + 1; (555)
RotateHeightLocal ==
    /\ At({"single_rotate_left", "single_rotate_right"}, {"543", "555"})
    /\ \E m \in {Now} : \E p \in {get_raw(m, Top.ptr)} :
        Line(set_height(m, Top.local, m.heap[Top.local][Lifted(Top.fn)], p),
             IF Top.pc = "543" THEN "545" ELSE "557")

\* left->right_ = std::move( ptr );   (545)
\* right->left_ = std::move( ptr );   (557)
RotateLower ==
    /\ At({"single_rotate_left", "single_rotate_right"}, {"545", "557"})
    /\ Line(MoveAssign(Now, Field(Top.local, Lowered(Top.fn)), Top.ptr),
            IF Top.pc = "545" THEN "546" ELSE "558")

\* ptr = std::move( left );    (546)
\* ptr = std::move( right );   (558)
RotateLift ==
    /\ At({"single_rotate_left", "single_rotate_right"}, {"546", "558"})
    /\ Returns(Reset(Now, Top.ptr, Top.local))

\* single_rotate_right( ptr->left_ );   (563)
\* single_rotate_left( ptr->right_ );   (569)
DoubleFirst ==
    /\ At({"double_rotate_left", "double_rotate_right"}, {"563", "569"})
    /\ \E m \in {Now} : \E p \in {get_raw(m, Top.ptr)} :
        IF ~Live(m, p) THEN Line(Fault(m), Top.pc)
        ELSE IF Top.pc = "563"
        THEN Calls(m, "564", Frame("single_rotate_right", LeftOf(p), Top.value,
                                   "551", 0))
        ELSE Calls(m, "570", Frame("single_rotate_left", RightOf(p), Top.value,
                                   "539", 0))

\* single_rotate_left( ptr );    (564)
\* single_rotate_right( ptr );   (570)
DoubleSecond ==
    /\ At({"double_rotate_left", "double_rotate_right"}, {"564", "570"})
    /\ Goes(Now, Append(Callers,
                        IF Top.pc = "564"
                        THEN Frame("single_rotate_left", Top.ptr, Top.value,
                                   "539", 0)
                        ELSE Frame("single_rotate_right", Top.ptr, Top.value,
                                   "551", 0)))

NextStep ==
    \/ \E v \in StepValues : StepCall("insert", v)
    \/ \E v \in StepValues : StepCall("remove", v)
    \/ Insert476
    \/ Insert479
    \/ CallBalance
    \/ Remove575
    \/ Remove593
    \/ Remove594
    \/ Remove598
    \/ Remove599
    \/ Balance506
    \/ Balance534
    \/ RotateTake
    \/ RotateInner
    \/ RotateHeight
    \/ RotateHeightLocal
    \/ RotateLower
    \/ RotateLift
    \/ DoubleFirst
    \/ DoubleSecond

SpecStep == Init /\ [][NextStep]_vars

(***************************************************************************)
(* C1.  AVL balance: after every public insert or remove, starting from    *)
(* the empty tree, the true heights of the left and right subtrees of      *)
(* every node reachable from the root differ by at most 1.                 *)
(***************************************************************************)
C1_AvlBalance ==
    \A n \in Reach(heap, root_) :
        Abs(TrueHeight(heap, heap[n].left_) - TrueHeight(heap, heap[n].right_)) <= 1

\* A remove whose unwind rotated, leaving a tree of height 3.
C1_Witness ==
    /\ last.op = "remove"
    /\ last.singles + last.doubles >= 1
    /\ TrueHeight(heap, root_) = 3

(***************************************************************************)
(* C2.  Height cache: after every public insert or remove, every reachable *)
(* node's height_ is 1 + max( height( left_ ), height( right_ ) ), with    *)
(* height 0 for an absent subtree and 1 for a leaf, so height_ is the true *)
(* height; height() is 0 exactly when the tree has no node.                *)
(***************************************************************************)
C2_HeightCache ==
    /\ \A n \in Reach(heap, root_) :
           /\ heap[n].height_ =
                  1 + std_max(height(Cur, heap[n].left_), height(Cur, heap[n].right_))
           /\ heap[n].height_ = TrueHeight(heap, n)
           /\ (heap[n].left_ = NULL /\ heap[n].right_ = NULL) => heap[n].height_ = 1
    /\ (avl_height(Cur) = 0) <=> (Reach(heap, root_) = {})

\* A double rotation has just rebuilt the top of a tree of at least 5 nodes.
C2_Witness ==
    /\ last.op \in {"insert", "remove"}
    /\ last.doubles = 1
    /\ Cardinality(Reach(heap, root_)) >= 5

(***************************************************************************)
(* C3.  Search-tree order, no duplicates: after any insert/remove, every   *)
(* value in a node's left subtree is less than the node's value and every  *)
(* value in its right subtree is greater; the in-order sequence is         *)
(* strictly ascending and no two nodes hold the same value.                *)
(***************************************************************************)
C3_SearchOrder ==
    /\ \A n \in Reach(heap, root_) :
           /\ \A x \in ValuesBelow(heap, heap[n].left_) : less_(x, heap[n].value_)
           /\ \A x \in ValuesBelow(heap, heap[n].right_) : less_(heap[n].value_, x)
    /\ StrictlyAscending(InOrder(heap, root_))
    /\ \A a, b \in Reach(heap, root_) : heap[a].value_ = heap[b].value_ => a = b

\* A remove that spliced a node out and rotated, leaving at least 4 nodes.
C3_Witness ==
    /\ last.op = "remove"
    /\ last.destroyed = 1
    /\ last.singles = 1
    /\ Cardinality(Reach(heap, root_)) >= 4

(***************************************************************************)
(* C4.  Size: after any insert, remove and clear, size() is the number of  *)
(* nodes reachable from the root, which is the number of elements a        *)
(* begin()-to-end() traversal yields; empty() holds exactly when it is 0.  *)
(***************************************************************************)
C4_SizeConsistent ==
    /\ size(Cur) = Cardinality(Reach(heap, root_))
    /\ ~print(Cur, This).fault
    /\ Len(print(Cur, This).out) = Cardinality(Reach(heap, root_))
    /\ empty(Cur) <=> (Cardinality(Reach(heap, root_)) = 0)

\* A clear that destroyed a tree of several nodes.
C4_Witness ==
    /\ last.op = "clear"
    /\ last.destroyed >= 3
    /\ size_ = 0

(***************************************************************************)
(* C5.  The tree refines a set: with the same inserts and removes applied  *)
(* to a mathematical set, after every step contains( x ) holds exactly for *)
(* the x in the set, size() is the set's cardinality, and the in-order     *)
(* traversal is the set's elements in ascending order.                     *)
(***************************************************************************)
C5_RefinesSet ==
    /\ \A x \in 0..(MaxVal + 1) : contains(Cur, x) <=> x \in abs
    /\ size(Cur) = Cardinality(abs)
    /\ InOrder(heap, root_) = Ascending(abs)
    /\ print(Cur, This).out = Ascending(abs)

\* A remove of a present value has left a set of at least 4 elements.
C5_Witness ==
    /\ last.op = "remove"
    /\ last.destroyed = 1
    /\ Cardinality(abs) >= 4
    /\ contains(Cur, MaxVal)

(***************************************************************************)
(* C6.  Insert idempotence: an insert of a value the tree already holds    *)
(* leaves shape, values, cached heights, size and traversal as they were; *)
(* it rotates nothing, creates no node and does not increment size_.       *)
(***************************************************************************)
C6_InsertIdempotent ==
    [][(last'.op = "insert" /\ last'.arg \in ValuesBelow(heap, root_)) =>
          /\ heap' = heap
          /\ root_' = root_
          /\ size_' = size_
          /\ print(Machine(heap', root_', size_'), This) = print(Cur, This)
          /\ last'.singles = 0 /\ last'.doubles = 0
          /\ last'.created = 0 /\ last'.destroyed = 0]_vars

\* An insert that created nothing, below the root of a tree of 5 or more nodes.
C6_Witness ==
    /\ last.op = "insert"
    /\ last.created = 0
    /\ size_ >= 5
    /\ heap[root_].value_ # last.arg

(***************************************************************************)
(* C7.  Removal no-op: a remove of a value the tree does not hold leaves   *)
(* size, traversal, shape and every cached height as they were and signals *)
(* no error, on the empty tree too.                                        *)
(***************************************************************************)
C7_RemoveAbsentNoOp ==
    [][(last'.op = "remove" /\ last'.arg \notin ValuesBelow(heap, root_)) =>
          /\ heap' = heap
          /\ root_' = root_
          /\ size_' = size_
          /\ print(Machine(heap', root_', size_'), This) = print(Cur, This)
          /\ last'.singles = 0 /\ last'.doubles = 0
          /\ last'.created = 0 /\ last'.destroyed = 0
          /\ ~last'.threw /\ ~last'.fault]_vars

\* A remove that destroyed nothing, on a tree of height 3.
C7_Witness ==
    /\ last.op = "remove"
    /\ last.destroyed = 0
    /\ TrueHeight(heap, root_) = 3

(***************************************************************************)
(* C8.  Round trip: once N distinct values have all been inserted and then *)
(* all been removed, in any orders, the tree is empty: size() is 0, there  *)
(* is no root, and min() and max() throw avl_tree_exception.               *)
(***************************************************************************)
C8_RoundTripEmpty ==
    RTDone =>
        /\ size(Cur) = 0
        /\ root_ = NULL
        /\ DOMAIN heap = {}
        /\ min(Cur).threw /\ max(Cur).threw
        /\ last.op \in {"min", "max"} => (last.threw /\ ~last.fault)

\* max() has thrown at the end of a round trip of at least 5 values.
C8_Witness ==
    /\ RTDone
    /\ Cardinality(rt.goal) >= 5
    /\ last.op = "max"
    /\ last.threw

(***************************************************************************)
(* C9.  Errors: min() and max() throw avl_tree_exception exactly when the  *)
(* tree has no element, and leave the tree as it was; insert, remove,      *)
(* contains, size, empty and clear never throw and never fault, an insert  *)
(* of a present value and a remove of an absent one included.              *)
(***************************************************************************)
C9_ErrorTaxonomy ==
    [][/\ last'.op \in {"min", "max"} =>
             /\ last'.threw <=> (Reach(heap, root_) = {})
             /\ heap' = heap /\ root_' = root_ /\ size_' = size_
       /\ last'.op \in {"insert", "remove", "contains", "size", "empty", "clear"} =>
             ~last'.threw
       /\ ~last'.fault]_vars

\* min() has thrown on a tree that has no node.
C9_Witness ==
    /\ last.op = "min"
    /\ last.threw
    /\ ~last.fault
    /\ root_ = NULL

(***************************************************************************)
(* C10.  On a non-empty tree min() returns the least element and max() the *)
(* greatest, the first and the last of the in-order traversal, and the     *)
(* tree is left as it was.  For 5,3,8,1,4,7,9: min() is 1, max() is 9 and  *)
(* the traversal is 1,3,4,5,7,8,9.                                         *)
(***************************************************************************)
Scenario7 ==
    insert_list(Machine([x \in {} |-> NULL], NULL, 0), <<5, 3, 8, 1, 4, 7, 9>>, 1)

Scenario7MinMax ==
    /\ min(Scenario7) = Outcome(FALSE, FALSE, 1)
    /\ max(Scenario7) = Outcome(FALSE, FALSE, 9)
    /\ print(Scenario7, This) = [out |-> <<1, 3, 4, 5, 7, 8, 9>>, fault |-> FALSE]
    /\ InOrder(Scenario7.heap, Scenario7.root_) = <<1, 3, 4, 5, 7, 8, 9>>

C10_MinMax ==
    [][/\ Scenario7MinMax
       /\ (last'.op = "min" /\ ~last'.threw) =>
             /\ InOrder(heap, root_) # <<>>
             /\ last'.ret = Head(InOrder(heap, root_))
             /\ \A x \in ValuesBelow(heap, root_) : last'.ret <= x
             /\ last'.ret \in ValuesBelow(heap, root_)
             /\ heap' = heap /\ root_' = root_ /\ size_' = size_
       /\ (last'.op = "max" /\ ~last'.threw) =>
             /\ InOrder(heap, root_) # <<>>
             /\ last'.ret = InOrder(heap, root_)[Len(InOrder(heap, root_))]
             /\ \A x \in ValuesBelow(heap, root_) : x <= last'.ret
             /\ last'.ret \in ValuesBelow(heap, root_)
             /\ heap' = heap /\ root_' = root_ /\ size_' = size_]_vars

\* max() has returned the value two links right of the root.
C10_Witness ==
    /\ last.op = "max"
    /\ ~last.threw
    /\ root_ # NULL
    /\ heap[root_].right_ # NULL
    /\ heap[heap[root_].right_].right_ # NULL
    /\ last.ret = heap[heap[heap[root_].right_].right_].value_

(***************************************************************************)
(* C11.  A move from tree y into a distinct tree x, by the move            *)
(* constructor or by move assignment, leaves x with the elements y had and *)
(* y empty, also when x and y hold equal sequences; a move assignment of a *)
(* tree to itself changes nothing.                                         *)
(***************************************************************************)
\* The in-order sequence of object x.
Elements(x) == InOrder(heap, Obj(x).root_)

\* x has taken what y held and y is empty.
Moved(x, y) ==
    /\ Elements(x)' = Elements(y)
    /\ Elements(y)' = <<>>
    /\ Obj(y)' = [root_ |-> NULL, size_ |-> 0]
    /\ ~last'.fault

\* Both trees are as they were.
Untouched ==
    /\ heap' = heap /\ root_' = root_ /\ size_' = size_
    /\ other' = other
    /\ ~last'.fault

C11_MoveByIdentity ==
    [][\A x \in Objects, y \in Objects :
           /\ (last'.op = "move_constructor" /\ last'.arg = <<x, y>>) =>
                 Moved(x, y)
           /\ (last'.op = "move_assignment" /\ last'.arg = <<x, y>>) =>
                 IF x # y THEN Moved(x, y) ELSE Untouched]_vars

(***************************************************************************)
(* C12.  A tree made by the copy constructor or by copy assignment has the *)
(* shape, the element values, the cached heights and the size of its       *)
(* source and shares no node with it, the source being left as it was; and *)
(* an insert, remove or clear on one tree leaves the other tree as it was. *)
(***************************************************************************)
\* The subtree at p without its addresses: value, cached height, subtrees.
RECURSIVE Shape(_, _)
Shape(h, p) ==
    IF p \notin DOMAIN h THEN <<>>
    ELSE <<h[p].value_, h[p].height_, Shape(h, h[p].left_), Shape(h, h[p].right_)>>

\* Object x without its addresses, and the nodes it owns.
ShapeOf(x) == <<Obj(x).size_, Obj(x).root_ = NULL, Shape(heap, Obj(x).root_)>>
Nodes(x) == Reach(heap, Obj(x).root_)

C12_CopyIndependent ==
    [][\A x \in Objects, y \in Objects :
           /\ (/\ last'.op \in {"copy_constructor", "copy_assignment"}
               /\ last'.arg = <<x, y>>) =>
                 /\ ShapeOf(x)' = ShapeOf(y)
                 /\ ShapeOf(y)' = ShapeOf(y)
                 /\ Nodes("a")' \cap Nodes("b")' = {}
                 /\ Cardinality(Nodes(x)') = Obj(y).size_
                 /\ ~last'.fault
           /\ (/\ last'.op \in {"insert", "remove", "clear"}
               /\ last'.arg = <<x>>
               /\ y # x) =>
                 /\ ShapeOf(y)' = ShapeOf(y)
                 /\ Elements(y)' = Elements(y)
                 /\ Nodes("a")' \cap Nodes("b")' = {}]_vars

\* a = b has returned: a, which held other elements, is a three-node copy of b
\* on nodes of its own.
C12_Witness ==
    /\ last.op = "copy_assignment"
    /\ last.arg = <<"a", "b">>
    /\ last.created = 3
    /\ last.destroyed > 0
    /\ ShapeOf("a") = ShapeOf("b")
    /\ Nodes("a") \cap Nodes("b") = {}
    /\ Cardinality(Nodes("a") \cup Nodes("b")) = 6

(***************************************************************************)
(* C14.  The comparisons of two trees depend on their in-order sequences   *)
(* only: a == b exactly when the sequences are the same, a < b exactly     *)
(* when a's sequence is lexicographically less than b's, a > b is b < a,   *)
(* a <= b is the negation of b < a, a >= b the negation of a < b, and      *)
(* a != b the negation of a == b.  A comparison changes neither tree.      *)
(***************************************************************************)
\* s comes before t in the lexicographic order.
LexLess(s, t) ==
    \E k \in 0..Len(s) :
        /\ k <= Len(t)
        /\ \A i \in 1..k : s[i] = t[i]
        /\ \/ k = Len(s) /\ k < Len(t)
           \/ k < Len(s) /\ k < Len(t) /\ s[k + 1] < t[k + 1]

C14_CompareSequences ==
    [][\A x \in Objects, y \in Objects :
           (last'.op = "compare" /\ last'.arg = <<x, y>>) =>
               /\ last'.ret[1] = (Elements(x) = Elements(y))
               /\ last'.ret[2] = ~last'.ret[1]
               /\ last'.ret[3] = LexLess(Elements(x), Elements(y))
               /\ last'.ret[4] = LexLess(Elements(y), Elements(x))
               /\ last'.ret[5] = ~last'.ret[4]
               /\ last'.ret[6] = ~last'.ret[3]
               /\ ~last'.fault
               /\ heap' = heap /\ root_' = root_ /\ size_' = size_
               /\ other' = other]_vars

\* a == b has returned true for two-node trees of different shapes, which
\* are then neither less nor greater.
C14_Witness ==
    /\ last.op = "compare"
    /\ last.arg = <<"a", "b">>
    /\ last.ret = <<TRUE, FALSE, FALSE, FALSE, TRUE, TRUE>>
    /\ size_ = 2
    /\ ShapeOf("a") # ShapeOf("b")

(***************************************************************************)
(* C13.  On a tree that is not changed during the walk, a cursor taken     *)
(* from begin() and advanced yields the elements in strictly ascending     *)
(* order, one for each step: after k steps it has yielded the first k      *)
(* elements of the in-order sequence.  It equals end() exactly when it has *)
(* been advanced size() times, and exactly then its stack is empty; before *)
(* that the top of its stack is the node of the next element.              *)
(***************************************************************************)
C13_OrderedIteration ==
    (cursor.made /\ ~cursor.stale) =>
        /\ cursor.cur.index_ \in 0..size_
        /\ Len(cursor.seen) = cursor.cur.index_
        /\ cursor.seen = SubSeq(InOrder(heap, root_), 1, cursor.cur.index_)
        /\ StrictlyAscending(cursor.seen)
        /\ AtEnd(Cur, cursor) <=> (cursor.cur.index_ = size_)
        /\ AtEnd(Cur, cursor) <=> (cursor.cur.stack_ = <<>>)
        /\ AtEnd(Cur, cursor) => cursor.seen = InOrder(heap, root_)
        /\ ~AtEnd(Cur, cursor) =>
              /\ it_ok(Cur, cursor.cur)
              /\ it_deref(Cur, cursor.cur)
                    = InOrder(heap, root_)[cursor.cur.index_ + 1]
              /\ ~cursor.fault

\* A walk over a tree of at least four elements has reached end(), having
\* passed a right child that has a left child.
C13_Witness ==
    /\ cursor.made
    /\ ~cursor.stale
    /\ ~cursor.fault
    /\ size_ >= 4
    /\ AtEnd(Cur, cursor)
    /\ Len(cursor.seen) = size_
    /\ heap[root_].right_ # NULL
    /\ heap[heap[root_].right_].left_ # NULL

(***************************************************************************)
(* C15.  Inserting 3, then 2, then 1 into an empty tree: after the second  *)
(* insert the tree is the two-node chain 3 with left child 2; the third    *)
(* insert makes one single rotation and no double rotation and leaves 2 at *)
(* the root with height 2, the leaves 1 and 3 of height 1 as its left and  *)
(* right children, and size 3.                                             *)
(***************************************************************************)
Leaf(v) == <<v, 1, <<>>, <<>>>>

\* The tree after insert( 3 ), insert( 2 ).
Chain32 ==
    insert_list(Machine([x \in {} |-> NULL], NULL, 0), <<3, 2>>, 1)

\* The call insert( 1 ) on it.
Insert321 ==
    insert(Machine(Chain32.heap, Chain32.root_, Chain32.size_), 1, RootSlot, 3)

Scenario321 ==
    /\ Shape(Chain32.heap, Chain32.root_) = <<3, 2, Leaf(2), <<>>>>
    /\ Chain32.size_ = 2
    /\ Chain32.singles = 0 /\ Chain32.doubles = 0
    /\ Insert321.singles = 1 /\ Insert321.doubles = 0
    /\ Shape(Insert321.heap, Insert321.root_) = <<2, 2, Leaf(1), Leaf(3)>>
    /\ Insert321.size_ = 3
    /\ Insert321.created = 1 /\ Insert321.destroyed = 0
    /\ ~Insert321.fault

C15_Scenario321 ==
    [][/\ Scenario321
       /\ (/\ Shape(heap, root_) = <<3, 2, Leaf(2), <<>>>>
           /\ last'.op = "insert"
           /\ last'.arg = 1) =>
             /\ last'.singles = 1 /\ last'.doubles = 0
             /\ Shape(heap', root_') = <<2, 2, Leaf(1), Leaf(3)>>
             /\ size_' = 3
             /\ ~last'.fault]_vars

\* insert( 1 ) has returned after one single rotation, with 2 above 1 and 3.
C15_Witness ==
    /\ last.op = "insert"
    /\ last.arg = 1
    /\ last.singles = 1
    /\ last.doubles = 0
    /\ last.created = 1
    /\ Shape(heap, root_) = <<2, 2, Leaf(1), Leaf(3)>>
    /\ size_ = 3
    /\ abs = {1, 2, 3}

(***************************************************************************)
(* C16.  remove( v ) that finds v in a node with two children keeps that   *)
(* node: the node takes the least value of its right subtree, the node     *)
(* that held that value is the one destroyed, the other nodes keep their   *)
(* in-order positions, and size() goes down by one.  For the tree built by *)
(* inserting 5,3,8,1,4,7,9, remove( 5 ) leaves 7 in the root node, the     *)
(* traversal 1,3,4,7,8,9, size 6, and a balanced search tree with correct  *)
(* cached heights.                                                         *)
(***************************************************************************)
Without(q, x) == SelectSeq(q, LAMBDA e : e # x)

\* The node below p that holds the least value.
MinNode(h, p) ==
    CHOOSE n \in Reach(h, p) : \A k \in Reach(h, p) : h[n].value_ <= h[k].value_

\* Every node below p is balanced, ordered and has its height cached.
WellFormed(h, p) ==
    /\ StrictlyAscending(InOrder(h, p))
    /\ \A n \in Reach(h, p) :
          /\ Abs(TrueHeight(h, h[n].left_) - TrueHeight(h, h[n].right_))
                <= ALLOWED_IMBALANCE
          /\ h[n].height_ = TrueHeight(h, n)

\* remove( 5 ) on the tree of 5,3,8,1,4,7,9, whose node k holds the k-th
\* value inserted.
Remove5 ==
    remove(Machine(Scenario7.heap, Scenario7.root_, Scenario7.size_),
           Temp(5), RootSlot)

Scenario7Remove5 ==
    /\ Scenario7.root_ = 1 /\ Scenario7.heap[1].value_ = 5
    /\ Scenario7.heap[6].value_ = 7
    /\ Remove5.root_ = 1 /\ Remove5.heap[1].value_ = 7
    /\ DOMAIN Remove5.heap = DOMAIN Scenario7.heap \ {6}
    /\ InOrder(Remove5.heap, Remove5.root_) = <<1, 3, 4, 7, 8, 9>>
    /\ print(Remove5, This) = [out |-> <<1, 3, 4, 7, 8, 9>>, fault |-> FALSE]
    /\ Remove5.size_ = 6
    /\ Remove5.destroyed = 1 /\ Remove5.created = 0
    /\ WellFormed(Remove5.heap, Remove5.root_)
    /\ ~Remove5.fault

\* What remove( v ) does to the tree of the current state, v being the
\* value of node n, which has two children.
TwoChildRemoval(n) ==
    LET stop == remove(Cur, Temp(heap[n].value_), RootSlot)
        succ == MinNode(heap, heap[n].right_)
    IN  /\ ~stop.fault
        /\ n \in DOMAIN stop.heap
        /\ stop.heap[n].value_ = heap[succ].value_
        /\ \A x \in ValuesBelow(heap, heap[n].right_) : heap[succ].value_ <= x
        /\ DOMAIN stop.heap = DOMAIN heap \ {succ}
        /\ InOrderNodes(stop.heap, stop.root_)
              = Without(InOrderNodes(heap, root_), succ)
        /\ \A k \in DOMAIN stop.heap \ {n} : stop.heap[k].value_ = heap[k].value_
        /\ stop.size_ = size_ - 1
        /\ stop.destroyed = 1 /\ stop.created = 0

C16_TwoChildRemoval ==
    [][/\ Scenario7Remove5
       /\ \A n \in Reach(heap, root_) :
             (/\ last'.op = "remove"
              /\ last'.arg = heap[n].value_
              /\ heap[n].left_ # NULL
              /\ heap[n].right_ # NULL) =>
                /\ TwoChildRemoval(n)
                /\ size_' = size_ - 1
                /\ InOrder(heap', root_') = Without(InOrder(heap, root_), last'.arg)
                /\ WellFormed(heap', root_')
                /\ last'.destroyed = 1 /\ last'.created = 0
                /\ ~last'.fault]_vars

\* remove( 4 ) has returned, 4 having been in the root above the subtrees
\* 1,2,3 and 5,6: no tree of six nodes has 4 anywhere else and becomes this
\* tree without a rotation.
C16_Witness ==
    /\ last.op = "remove"
    /\ last.arg = 4
    /\ last.destroyed = 1
    /\ last.singles = 0 /\ last.doubles = 0
    /\ Shape(heap, root_) = <<5, 3, <<2, 2, Leaf(1), Leaf(3)>>, Leaf(6)>>
    /\ size_ = 5

(***************************************************************************)
(* C18.  A tree of height h holds at least N(h) elements, where N(0) = 0,  *)
(* N(1) = 1 and N(h) = N(h-1) + N(h-2) + 1, for the height height()        *)
(* reports and for the height counted from the links; and the descent of   *)
(* contains, insert and remove for any value passes at most height()       *)
(* nodes.                                                                  *)
(***************************************************************************)
RECURSIVE MinNodes(_)
MinNodes(h) ==
    IF h = 0 THEN 0
    ELSE IF h = 1 THEN 1
    ELSE MinNodes(h - 1) + MinNodes(h - 2) + 1

\* The nodes the descent for v passes from p on: to the node that holds v,
\* or to the empty slot where v would be.
RECURSIVE PathLen(_, _, _)
PathLen(h, p, v) ==
    IF p \notin DOMAIN h THEN 0
    ELSE IF less_(v, h[p].value_) THEN 1 + PathLen(h, h[p].left_, v)
    ELSE IF less_(h[p].value_, v) THEN 1 + PathLen(h, h[p].right_, v)
    ELSE 1

C18_LogHeight ==
    /\ size_ >= MinNodes(avl_height(Cur))
    /\ Cardinality(Reach(heap, root_)) >= MinNodes(TrueHeight(heap, root_))
    /\ \A v \in Values : PathLen(heap, root_, v) <= avl_height(Cur)
    /\ \A n \in Reach(heap, root_) :
          Cardinality(Reach(heap, n)) >= MinNodes(heap[n].height_)

\* remove has left a tree of height 3 with the least number of nodes, 4, in
\* which some descent passes 3 nodes.
C18_Witness ==
    /\ last.op = "remove"
    /\ last.destroyed = 1
    /\ avl_height(Cur) = 3
    /\ size_ = MinNodes(3)
    /\ \E v \in Values : PathLen(heap, root_, v) = 3

(***************************************************************************)
(* C17.  A cursor taken before an insert that adds a node or a remove that *)
(* deletes one is not safe to use afterwards.  There are reachable states  *)
(* in which the top of its stack is a destroyed node, and states in which  *)
(* a rotation has left its stack empty before it equals end(), so that the *)
(* walk skips elements and the comparison with end() does not stop it.  A  *)
(* cursor is in such a state only after a node was created or destroyed    *)
(* since it was taken.                                                     *)
(***************************************************************************)
\* The cursor k steps after begin() on the tree m.
RECURSIVE Walk(_, _, _)
Walk(m, it, k) == IF k = 0 \/ ~it_ok(m, it) THEN it ELSE Walk(m, it_next(m, it), k - 1)

\* The cursor is what a walk over the tree as it is now would be.
Valid(c) ==
    /\ c.cur.index_ \in 0..size_
    /\ c.cur = Walk(Cur, begin(Cur, This), c.cur.index_)

\* 2, 1, 3 inserted, a cursor taken, 1 removed: the top of the cursor's
\* stack is the node that was destroyed.
Tree213 == insert_list(Machine([x \in {} |-> NULL], NULL, 0), <<2, 1, 3>>, 1)

DeadTop ==
    LET it == begin(Tree213, This)
        m == remove(Tree213, Temp(1), RootSlot)
    IN  /\ it.stack_ = <<1, 2>>
        /\ Tree213.heap[2].value_ = 1
        /\ ~it_ok(m, it)
        /\ 2 \notin DOMAIN m.heap
        /\ ~it_eq(it, end_(m, This))

\* 1, 2 inserted, a cursor taken, 3 inserted: the rotation has put node 1
\* below node 2, and the cursor yields 1 and then has an empty stack with
\* index 1 of 3, having passed neither 2 nor 3.
Tree12 == insert_list(Machine([x \in {} |-> NULL], NULL, 0), <<1, 2>>, 1)

SkipsAfterRotation ==
    LET it == begin(Tree12, This)
        m == insert(Tree12, 3, RootSlot, 3)
    IN  /\ it.stack_ = <<1>>
        /\ m.singles = 1
        /\ it_ok(m, it) /\ it_deref(m, it) = 1
        /\ it_next(m, it).stack_ = <<>>
        /\ it_next(m, it).index_ = 1
        /\ ~it_eq(it_next(m, it), end_(m, This))
        /\ InOrder(m.heap, m.root_) = <<1, 2, 3>>

C17_CursorInvalidation ==
    /\ DeadTop
    /\ SkipsAfterRotation
    /\ (cursor.made /\ ~cursor.stale) =>
          /\ Valid(cursor)
          /\ cursor.seen = SubSeq(InOrder(heap, root_), 1, cursor.cur.index_)
    /\ (cursor.made /\ ~Valid(cursor)) =>
          /\ cursor.stale
          /\ last.op \in {"insert", "remove", "clear"}
          /\ last.created + last.destroyed > 0

\* remove has destroyed the node on top of the stack of a cursor that has
\* not reached end().
C17_Witness ==
    /\ cursor.made
    /\ cursor.stale
    /\ last.op = "remove"
    /\ last.destroyed = 1
    /\ cursor.cur.stack_ # <<>>
    /\ cursor.cur.stack_[Len(cursor.cur.stack_)] \notin DOMAIN heap
    /\ ~AtEnd(Cur, cursor)
    /\ size_ > 0

\* An insert has rotated the tree under a cursor, which then yielded an
\* element and is left with an empty stack, not equal to end(), two elements
\* short.
C17_SkipReached ==
    /\ cursor.made
    /\ cursor.stale
    /\ last.op = "insert"
    /\ last.singles = 1
    /\ cursor.cur.stack_ = <<>>
    /\ ~AtEnd(Cur, cursor)
    /\ Len(cursor.seen) = 1
    /\ size_ = 3

(***************************************************************************)
(* C19.  ThreadQueue under any interleaving of threads calling push, pop   *)
(* and try_pop: a thread is at a statement that reads or changes queue_    *)
(* only while it owns mutex_; the elements pushed, in the order their      *)
(* pushes held the lock, are the elements delivered so far, in the order   *)
(* they were delivered, followed by the elements still in queue_, so no    *)
(* element is delivered twice, lost or overtaken; and no pop or try_pop    *)
(* takes from an empty queue_.                                             *)
(***************************************************************************)
\* The threads that hold an element they were given.
Holding == {t \in DOMAIN th : th[t].pc \in {"pop_unlock", "pop_ret"}
                                \/ (th[t].pc \in {"try_unlock", "try_ret"}
                                       /\ th[t].ret)}

C19_LinearizableFifo ==
    /\ \A t \in DOMAIN th : th[t].pc \in Critical => mq.mutex_ = t
    /\ mq.mutex_ # NoThread => th[mq.mutex_].pc \in Critical
    /\ log.pushed = log.got \o mq.queue_
    /\ \A i \in 1..Len(log.pushed), j \in 1..Len(log.pushed) :
          i # j => log.pushed[i] # log.pushed[j]
    /\ ~log.fault
    /\ \A t \in Holding : th[t].elem \in SeqRange(log.got)
    /\ \A t \in Holding, u \in Holding : t # u => th[t].elem # th[u].elem
    /\ \A t \in DOMAIN th : t \in mq.cond_ <=> th[t].pc = "pop_wait"

\* Two elements were pushed and both have been delivered in that order, the
\* second by a pop that is about to return it.
C19_Witness ==
    /\ log.pushed = <<1, 2>>
    /\ log.got = <<1, 2>>
    /\ mq.queue_ = <<>>
    /\ \E t \in DOMAIN th : th[t].pc = "pop_ret" /\ th[t].elem = 2

(***************************************************************************)
(* C20.  In the test program, under fair scheduling, the provider gets     *)
(* through all its pushes (push never waits on cond_ and always returns),  *)
(* every message pushed is in the end received, the ten messages are       *)
(* received once each in the order 0 .. 9, and from then on the queue is   *)
(* empty, although notify_one is called after the lock is released.        *)
(***************************************************************************)
Messages == [k \in 1..product_num |-> k - 1]

C20_NoLostWakeup ==
    /\ <>(th[pvi].pc = "done")
    /\ [](pvi \notin mq.cond_)
    /\ \A k \in 0..(product_num - 1) :
          (k \in SeqRange(log.pushed)) ~> (k \in SeqRange(log.got))
    /\ <>[](log.got = Messages /\ mq.queue_ = <<>>)
    /\ [](log.pushed = log.got \o mq.queue_)

\* All ten messages have been received, each consumer has printed its last
\* one and both are blocked in cond_.wait.
C20_Witness ==
    /\ th[pvi].pc = "done"
    /\ log.got = Messages
    /\ mq.cond_ = {csm1, csm2}
    /\ mq.mutex_ = NoThread

(***************************************************************************)
(* C23.  Node lifecycle: an insert of an absent value creates exactly one  *)
(* node and an insert of a present value none; a remove of a present value *)
(* destroys exactly one node and a remove of an absent value none; no call *)
(* creates or destroys a node otherwise, however it rotates; clear         *)
(* destroys every node; and in every state the number of live nodes is     *)
(* size().                                                                 *)
(***************************************************************************)
LiveNodes == Cardinality(DOMAIN heap)

Lifecycle ==
    /\ last'.op = "insert" =>
           /\ last'.created = IF last'.arg \in ValuesBelow(heap, root_) THEN 0 ELSE 1
           /\ last'.destroyed = 0
    /\ last'.op = "remove" =>
           /\ last'.destroyed = IF last'.arg \in ValuesBelow(heap, root_) THEN 1 ELSE 0
           /\ last'.created = 0
    /\ last'.op = "clear" =>
           /\ last'.destroyed = LiveNodes
           /\ last'.created = 0
           /\ DOMAIN heap' = {}
    /\ Cardinality(DOMAIN heap') = LiveNodes + last'.created - last'.destroyed

C23_NodeLifecycle ==
    /\ [](LiveNodes = size(Cur) /\ ~last.fault)
    /\ [][Lifecycle]_vars

\* An insert that made the sixth node and rotated twice on the way back.
C23_Witness ==
    /\ last.op = "insert"
    /\ last.created = 1
    /\ last.doubles = 1
    /\ LiveNodes = 6

(***************************************************************************)
(* C28.  try_pop never waits on cond_: on an empty queue_ it returns false *)
(* and leaves queue_ and the caller's elem as they were; on a non-empty    *)
(* queue_ it returns true, having removed exactly the front element and    *)
(* stored it in elem.  pop does not return while queue_ is empty: it takes *)
(* an element only at a test that found queue_ non-empty with the lock     *)
(* held, and after every wake-up, notified or not, it locks and tests      *)
(* again before taking.                                                    *)
(***************************************************************************)
\* The step thread t takes from a state where its next statement is pc.
From(t, pc) == th[t].pc = pc /\ th'[t] # th[t]

TryPopStep(t) ==
    /\ th'[t].op = "try_pop" => th'[t].pc \notin {"pop_wait", "pop_relock"}
    /\ (From(t, "try_test") /\ mq.queue_ = <<>>) =>
           /\ th'[t].pc = "try_unlock"
           /\ th'[t].ret = FALSE
           /\ th'[t].elem = th[t].elem
           /\ mq' = mq
    /\ (From(t, "try_test") /\ mq.queue_ # <<>>) =>
           /\ th'[t].pc = "try_take"
           /\ mq' = mq
    /\ From(t, "try_take") =>
           /\ mq.queue_ # <<>>
           /\ mq'.queue_ = Tail(mq.queue_)
           /\ th'[t].elem = Head(mq.queue_)
           /\ th'[t].ret = TRUE
           /\ th'[t].pc = "try_unlock"
    /\ From(t, "try_unlock") =>
           /\ th'[t].pc = "try_ret"
           /\ th'[t].ret = th[t].ret
           /\ th'[t].elem = th[t].elem
           /\ mq'.queue_ = mq.queue_

PopStep(t) ==
    /\ (From(t, "pop_test") /\ mq.queue_ = <<>>) =>
           /\ th'[t].pc = "pop_wait"
           /\ t \in mq'.cond_
           /\ mq'.mutex_ = NoThread
           /\ mq'.queue_ = mq.queue_
    /\ From(t, "pop_wait") => th'[t].pc = "pop_relock"
    /\ From(t, "pop_relock") => th'[t].pc = "pop_test" /\ mq'.mutex_ = t
    /\ (th'[t] # th[t] /\ th'[t].pc = "pop_take") =>
           From(t, "pop_test") /\ mq.queue_ # <<>>
    /\ From(t, "pop_take") =>
           /\ mq.queue_ # <<>>
           /\ mq'.queue_ = Tail(mq.queue_)
           /\ th'[t].elem = Head(mq.queue_)
           /\ th'[t].pc = "pop_unlock"
    /\ (th'[t] # th[t] /\ th'[t].pc = "pop_ret") =>
           From(t, "pop_unlock") /\ th[t].ret

C28_TryPopNeverBlocks ==
    /\ [](\A t \in Clients : th[t].op = "try_pop" => t \notin mq.cond_)
    /\ [][\A t \in Clients : TryPopStep(t) /\ PopStep(t)]_vars

\* A try_pop has found queue_ empty while another thread is blocked in pop.
C28_Witness ==
    \E t \in Clients :
        /\ th[t].pc = "try_ret"
        /\ th[t].ret = FALSE
        /\ mq.queue_ = <<>>
        /\ mq.cond_ # {}
        /\ log.got # <<>>

(***************************************************************************)
(* C21.  Rebalancing is local: whenever balance is entered with a node     *)
(* during an insert or remove on a valid tree, the subtrees at the node's  *)
(* left_ and right_ are search trees, balanced at every node and with true *)
(* cached heights, and their heights differ by at most 2; when they differ *)
(* by exactly 2 balance calls the single rotation if the taller child's    *)
(* outer grandchild is at least as tall as its inner one and the double    *)
(* rotation otherwise, and calls no rotation when they differ by less;     *)
(* and when balance returns, the subtree in the slot is balanced at every  *)
(* node, has true cached heights and has the in-order sequence it had when *)
(* balance was entered.                                                    *)
(***************************************************************************)
\* The subtree of h at q is a search tree, balanced, with true cached heights.
ValidAt(h, q) ==
    \A n \in Reach(h, q) :
        /\ \A x \in ValuesBelow(h, h[n].left_) : x < h[n].value_
        /\ \A x \in ValuesBelow(h, h[n].right_) : h[n].value_ < x
        /\ Abs(TrueHeight(h, h[n].left_) - TrueHeight(h, h[n].right_)) <= 1
        /\ h[n].height_ = TrueHeight(h, n)

\* What slot s holds after the step.
SlotAfter(s) == IF s.f = "root_" THEN root_' ELSE heap'[s.n][s.f]

\* The step is the executing frame's, a frame of one of the functions fns.
Executes(fns, pcs) ==
    /\ run.op # ""
    /\ run' # run
    /\ Top.fn \in fns
    /\ Top.pc \in pcs

\* The step returns from the executing frame, a frame of one of fns.
Popped(fns) ==
    /\ run.op # ""
    /\ Top.fn \in fns
    /\ \/ run'.op = ""
       \/ run'.op # "" /\ Len(run'.frames) < Len(run.frames)

\* The function the step has called, "" if it has called none.
Called ==
    IF run'.op # "" /\ Len(run'.frames) > Len(run.frames)
    THEN run'.frames[Len(run'.frames)].fn
    ELSE ""

\* The rotation due at a node whose children l and r have heights that
\* differ by 2, read off the links.
Due(h, l, r) ==
    IF TrueHeight(h, l) > TrueHeight(h, r)
    THEN IF TrueHeight(h, h[l].left_) >= TrueHeight(h, h[l].right_)
         THEN "single_rotate_left" ELSE "double_rotate_left"
    ELSE IF TrueHeight(h, h[r].right_) >= TrueHeight(h, h[r].left_)
         THEN "single_rotate_right" ELSE "double_rotate_right"

BalanceEntered(p) ==
    /\ ValidAt(heap, heap[p].left_)
    /\ ValidAt(heap, heap[p].right_)
    /\ Abs(TrueHeight(heap, heap[p].left_) - TrueHeight(heap, heap[p].right_)) <= 2
    /\ Called = IF Abs(TrueHeight(heap, heap[p].left_)
                         - TrueHeight(heap, heap[p].right_)) = 2
                THEN Due(heap, heap[p].left_, heap[p].right_)
                ELSE ""

BalanceReturned ==
    /\ ValidAt(heap', SlotAfter(Top.ptr))
    /\ InOrder(heap', SlotAfter(Top.ptr)) = Top.seq0

C21_LocalRebalance ==
    [][/\ (Executes({"balance"}, {"506"}) /\ get_raw(Now, Top.ptr) # NULL) =>
              BalanceEntered(get_raw(Now, Top.ptr))
       /\ Popped({"balance"}) => BalanceReturned]_vars

\* A remove has entered the single rotation at a node whose taller child has
\* grandchildren of the same height.
C21_Witness ==
    /\ run.op = "remove"
    /\ Top.fn = "single_rotate_left"
    /\ Top.pc = "539"
    /\ Len(run.frames) = 2
    /\ TrueHeight(heap, heap[heap[get_raw(Now, Top.ptr)].left_].left_) = 1
    /\ TrueHeight(heap, heap[heap[get_raw(Now, Top.ptr)].left_].right_) = 1

(***************************************************************************)
(* C22.  Heights move by one level at most: when insert returns from a     *)
(* call entered with a slot, on the way back of an insert into a valid     *)
(* tree, the subtree in the slot has the height it had on entry or one     *)
(* more; when remove returns it has that height or one less; and height()  *)
(* of the tree after a public insert or remove differs from height()       *)
(* before it by at most 1.                                                 *)
(***************************************************************************)
Unwound ==
    /\ run.op = "insert" =>
           TrueHeight(heap', SlotAfter(Top.ptr)) \in {Top.h0, Top.h0 + 1}
    /\ run.op = "remove" =>
           TrueHeight(heap', SlotAfter(Top.ptr)) \in {Top.h0, Top.h0 - 1}

C22_HeightByOne ==
    [][/\ Popped({"insert", "remove", "balance"}) => Unwound
       /\ (run.op # "" /\ run'.op = "") =>
              Abs(avl_height(Machine(heap', root_', size_'))
                    - avl_height(run.start[1])) <= 1]_vars

\* A remove is on its way back through a node whose subtree has lost a level,
\* two calls below the root.
C22_Witness ==
    /\ run.op = "remove"
    /\ Len(run.frames) = 2
    /\ Top.fn = "remove"
    /\ Top.pc = "603"
    /\ Top.h0 = 2
    /\ SlotHeight(Now, Top.ptr) = 1

(***************************************************************************)
(* C24.  Exclusive ownership at every statement: in every state, between   *)
(* the statements of a rotation and of the splice of remove too, every     *)
(* live node is held by exactly one owner (root_, the left_ or right_ of a *)
(* live node, or the local left / right of a rotation), every owner holds  *)
(* a live node or nullptr, and no node is below itself; when no call is in *)
(* progress every live node is reachable from root_.                       *)
(***************************************************************************)
\* The locals of the rotations in progress.
Locals == {run.frames[i].local : i \in 1..Len(run.frames)}

\* The number of owners that hold n.
Owners(n) ==
    Cardinality({q \in DOMAIN heap : heap[q].left_ = n})
      + Cardinality({q \in DOMAIN heap : heap[q].right_ = n})
      + Cardinality({i \in 1..Len(run.frames) : run.frames[i].local = n})
      + (IF root_ = n THEN 1 ELSE 0)

\* The pointers the owners hold.
Held ==
    {heap[q].left_ : q \in DOMAIN heap} \cup {heap[q].right_ : q \in DOMAIN heap}
        \cup Locals \cup {root_}

\* The nodes at most k links below p, p among them.
RECURSIVE Within(_, _, _)
Within(h, p, k) ==
    IF k = 0 \/ p \notin DOMAIN h THEN {}
    ELSE {p} \cup Within(h, h[p].left_, k - 1) \cup Within(h, h[p].right_, k - 1)

C24_ExclusiveOwnership ==
    /\ \A n \in DOMAIN heap : Owners(n) = 1
    /\ Held \subseteq DOMAIN heap \cup {NULL}
    /\ \A n \in DOMAIN heap :
           n \notin Within(heap, heap[n].left_, Cardinality(DOMAIN heap))
                      \cup Within(heap, heap[n].right_, Cardinality(DOMAIN heap))
    /\ run.op = "" => DOMAIN heap = Reach(heap, root_)
    /\ ~run.fault

\* Inside the second rotation of a double rotation, after the node was moved
\* below the local: the slot is empty and the local owns three levels.
C24_Witness ==
    /\ run.op # ""
    /\ Len(run.frames) >= 2
    /\ Top.fn = "single_rotate_left"
    /\ Top.pc = "546"
    /\ run.doubles = 1
    /\ get_raw(Now, Top.ptr) = NULL
    /\ Cardinality(Reach(heap, Top.local)) >= 5

(***************************************************************************)
(* C26.  One rotation per insert at most: during an insert into a valid    *)
(* tree balance decides for a rotation at no more than one node of the     *)
(* path (one single or one double rotation); every node above it is found  *)
(* within the tolerance, so balance only sets its height; and when balance *)
(* returns from the node it rotated, and from every node above, the        *)
(* subtree in the slot has the height it had before the insert.            *)
(***************************************************************************)
Rotations == run.singles + run.doubles

C26_OneRotationPerInsert ==
    /\ [](run.op = "insert" => Rotations <= 1)
    /\ [](last.op = "insert" => last.singles + last.doubles <= 1)
    /\ [][run.op = "insert" =>
            /\ (Executes({"balance"}, {"506"}) /\ Rotations = 1) =>
                   /\ Called = ""
                   /\ run'.frames[Len(run'.frames)].pc = "534"
            /\ (Popped({"balance"}) /\ Rotations = 1) =>
                   TrueHeight(heap', SlotAfter(Top.ptr)) = Top.h0]_vars

\* An insert has rotated two calls below the root and is back at the root.
C26_Witness ==
    /\ run.op = "insert"
    /\ Rotations = 1
    /\ Len(run.frames) = 1
    /\ Top.fn = "balance"
    /\ Top.pc = "534"
    /\ Top.h0 = 3

(***************************************************************************)
(* C25.  Two cursors compare equal exactly when they were taken on the     *)
(* same tree object and stand at the same position, whatever their stacks  *)
(* hold: the kept cursor, taken at position from and advanced once for     *)
(* every element it has seen, equals the cursor reached by j increments    *)
(* from y.begin() exactly when its object is y and its position is j, and  *)
(* equals y.end() exactly when its object is y and its position is         *)
(* y.size(); y.end() has index size() and an empty stack;                  *)
(* y.begin() == y.end() exactly when y has no element; and no cursor of a  *)
(* equals a cursor of b.                                                   *)
(***************************************************************************)
\* The cursor j increments after it.
RECURSIVE Increments(_, _, _)
Increments(m, it, j) == IF j = 0 THEN it ELSE Increments(m, it_next(m, it), j - 1)

\* The cursor at position j of y, and the cursors of y.
CursorAt(y, j) == Increments(Enter(y, y), begin(Enter(y, y), y), j)
CursorsOf(y) ==
    {CursorAt(y, j) : j \in 0..Obj(y).size_} \cup {end_(Enter(y, y), y)}

\* The position of the kept cursor.
Position == cursor.from + Len(cursor.seen)

C25_CursorEquality ==
    \A y \in {o \in Objects : Made_(o)} :
        /\ end_(Enter(y, y), y).index_ = Obj(y).size_
        /\ end_(Enter(y, y), y).stack_ = <<>>
        /\ it_eq(begin(Enter(y, y), y), end_(Enter(y, y), y))
               <=> Elements(y) = <<>>
        /\ \A z \in {o \in Objects : Made_(o)} \ {y} :
               \A c \in CursorsOf(y), d \in CursorsOf(z) : ~it_eq(c, d)
        /\ cursor.made =>
               /\ \A j \in 0..Obj(y).size_ :
                      /\ it_eq(cursor.cur, CursorAt(y, j))
                             <=> (cursor.origin = y /\ Position = j)
                      /\ it_eq(CursorAt(y, j), cursor.cur)
                             <=> (cursor.origin = y /\ Position = j)
               /\ it_eq(cursor.cur, end_(Enter(y, y), y))
                      <=> (cursor.origin = y /\ Position = Obj(y).size_)

\* A cursor taken on a has been advanced and then kept while a got a
\* smaller element: it equals the cursor at the same position of a though
\* the stacks differ, and it differs from the cursor at that position of b,
\* which holds the same elements as a.
C25_Witness ==
    /\ cursor.made /\ cursor.stale /\ ~cursor.fault
    /\ cursor.origin = "a"
    /\ Len(cursor.seen) = 1
    /\ other.made
    /\ Elements("a") = Elements("b")
    /\ Obj("a").size_ >= 2
    /\ it_eq(cursor.cur, CursorAt("a", 1))
    /\ cursor.cur.stack_ # CursorAt("a", 1).stack_
    /\ ~it_eq(cursor.cur, CursorAt("b", 1))

(***************************************************************************)
(* C27.  Whatever swaps, copies and moves were applied to trees built with *)
(* different comparators, every tree is a search tree under its own        *)
(* less_: at every node the values on the left are less and the values on  *)
(* the right are greater under less_, the traversal is strictly ordered    *)
(* under less_, and contains( x ) is true for every x the traversal        *)
(* yields.                                                                 *)
(***************************************************************************)
\* The subtree at p is a search tree under the comparator c.
SearchOrderBy(c, p) ==
    \A n \in Reach(heap, p) :
        /\ \A v \in ValuesBelow(heap, heap[n].left_) :
               less_by(c, v, heap[n].value_)
        /\ \A v \in ValuesBelow(heap, heap[n].right_) :
               less_by(c, heap[n].value_, v)

\* The sequence q is strictly ordered under the comparator c.
StrictlyOrderedBy(c, q) ==
    \A i \in 1..(Len(q) - 1) : less_by(c, q[i], q[i + 1])

C27_ComparatorConsistency ==
    \A x \in {o \in Objects : Made_(o)} :
        /\ SearchOrderBy(comp[x], Obj(x).root_)
        /\ StrictlyOrderedBy(comp[x], Elements(x))
        /\ \A i \in 1..Len(Elements(x)) :
               contains_by(Enter(x, x), comp[x], Elements(x)[i])

(***************************************************************************)
(* C29.  In a priority_queue constructed from any container and changed by *)
(* push, emplace and pop, no element is greater than its parent at index   *)
(* (i-1)/2, so top() is a greatest element; popping until the queue is     *)
(* empty yields the elements put in and not yet popped from the greatest   *)
(* down; a pop removes one occurrence of the greatest element and nothing  *)
(* else; top() returns a greatest element and changes nothing; and top()   *)
(* and pop() on an empty queue throw and change nothing.                   *)
(***************************************************************************)
\* No element of a is greater than its parent.
HeapOrder(a) ==
    \A i \in 1..(Len(a) - 1) : ~less_(Deref(a, Quotient(i - 1, 2)), Deref(a, i))

\* What top() returns before each pop() when a is popped until empty.
RECURSIVE Drain(_)
Drain(a) ==
    IF a = <<>> THEN <<>> ELSE <<a[1]>> \o Drain(pop_back(pop_heap(a)))

C29_HeapInvariant ==
    /\ [](pq.made =>
            /\ HeapOrder(pq.container_)
            /\ \A i \in 1..Len(pq.container_) :
                   ~less_(pq.container_[1], pq.container_[i])
            /\ Drain(pq.container_) = pq.sorted
            /\ Len(pq.container_) <= pq.capacity)
    /\ [][/\ (pq.made /\ last'.op = "pop") =>
                 IF pq.container_ = <<>>
                 THEN last'.threw /\ pq' = pq
                 ELSE /\ ~last'.threw
                      /\ SortDown(pq'.container_)
                             = Tail(SortDown(pq.container_))
                      /\ SortDown(pq.container_)[1] = pq.container_[1]
          /\ (pq.made /\ last'.op = "top") =>
                 /\ pq' = pq
                 /\ IF pq.container_ = <<>> THEN last'.threw
                    ELSE /\ ~last'.threw
                         /\ \A i \in 1..Len(pq.container_) :
                                pq.container_[i] <= last'.ret]_vars

\* A pop of a full queue whose greatest element occurred at least twice: one
\* occurrence is left on top, above a smaller right child and a left
\* grandchild between the two.
C29_Witness ==
    /\ pq.made
    /\ last.op = "pop"
    /\ last.arg = MaxLen
    /\ Len(pq.container_) = MaxLen - 1
    /\ pq.container_[1] = pq.container_[2]
    /\ pq.container_[1] > pq.container_[4]
    /\ pq.container_[4] > pq.container_[3]

(***************************************************************************)
(* C30.  While the program runs, size() of every unordered_set is the      *)
(* number of elements in its buckets, no element is stored twice, and      *)
(* bucket_count() is positive.                                             *)
(***************************************************************************)
\* The elements of the set x in the order of its buckets.
Stored(x) == Traverse(us[x].buckets_, 1)

C30_ElementCount ==
    ~us.ended =>
        \A x \in {o \in Objects : us[o].made} :
            /\ us[x].size_ = Len(Stored(x))
            /\ Cardinality(SeqRange(Stored(x))) = Len(Stored(x))
            /\ bucket_count(us[x]) > 0

====
